---- MODULE Spec2Model ----
(***************************************************************************)
(* Anjaymabar Net Tools: the command runners of utils/powershell.py, the   *)
(* registry helpers for AllowInsecureGuestAuth, the SMB tab's setting     *)
(* handlers and settings file of ui/smb_tab.py, and the adapter list of   *)
(* ui/network_tab.py.                                                      *)
(*                                                                         *)
(* Text produced or inspected by the program (stdout, stderr, messages)    *)
(* is a sequence of one-character strings, so that strip(), lower() and    *)
(* the substring test "x in s" are computed as Python computes them.       *)
(***************************************************************************)
EXTENDS Integers, Sequences, FiniteSets, TLC

VARIABLES
    checked,        \* ToggleSwitch._checked of guest_toggle, client_sig_toggle, server_sig_toggle
    enabled,        \* what set_toggles_enabled last set on the toggles and the three buttons
    overlay,        \* LoadingOverlay visible
    loading,        \* SMBTab._loading
    config_file,    \* content of config/smb_settings.json: <<>> when absent, else <<settings>>
    status,         \* last update_status(message, success)
    appended,       \* what the last handler passed to append_output, in order
    smb,            \* the host's SMB configuration as the Smb*Configuration cmdlets hold it
    reg,            \* the host's registry: AllowInsecureGuestAuth under the two keys
    commands,       \* external commands issued by the last handler or call, in order
    locals,         \* the local variables of the last handler or call when it returned
    writable,       \* whether config/smb_settings.json can be opened for writing
    host_adapters,  \* the host's network adapters, in the order Get-NetAdapter lists them
    network_adapters, \* NetworkTab.network_adapters: the dict, as a set of <<key, value>>
    adapter_combo,  \* the items of NetworkTab.adapter_combo, in order
    net_status,     \* last NetworkTab.update_status(message, success)
    net_appended,   \* what NetworkTab.append_output was last passed
    pending_clicks, \* clicks on the "Refresh" adapters button waiting in the event queue
    refresh_depth,  \* calls of refresh_network_adapters suspended in processEvents()
    stack,          \* the SMB tab's handlers suspended in processEvents(), innermost last
    connection_result_text, \* SMBTab.connection_result_text, as lines
    profiles,       \* the host's firewall profiles: enabled or not
    fw_status,      \* last FirewallTab.update_status(message, success)
    fw_output,      \* what FirewallTab.append_output was last passed
    host            \* what the host lets the process do: "elevated" (every write is
                    \* accepted, though policy may keep a setting as it is),
                    \* "restricted" (every write is refused), or "any" (each
                    \* command may go any way)

vars == <<checked, enabled, overlay, loading, config_file, status, appended,
          smb, reg, commands, locals, writable, host_adapters, network_adapters,
          adapter_combo, net_status, net_appended, pending_clicks, refresh_depth,
          stack, connection_result_text, profiles, fw_status, fw_output, host>>

\* the state of the Network tab and of the adapters it lists
net == <<host_adapters, network_adapters, adapter_combo, net_status, net_appended,
         pending_clicks, refresh_depth>>

\* the SMB tab's handlers in progress and its connection test output
ops == <<stack, connection_result_text>>

\* the Firewall tab and the host's firewall
fw == <<profiles, fw_status, fw_output>>

ui == <<checked, enabled, overlay, loading, config_file, status, appended, smb,
        writable, ops, fw, host>>

-----------------------------------------------------------------------------
(* Bounds of the model *)

\* a host's registry may hold any data 0..MaxRegData under either key
MaxRegData == 2

\* a process run by a command runner exits with a code in 0..MaxExitCode
MaxExitCode == 2

\* at most MaxPendingClicks clicks on the adapters' Refresh button wait in the
\* event queue, and at most MaxRefreshDepth calls of refresh_network_adapters
\* are on the stack
MaxPendingClicks == 2
MaxRefreshDepth == 2

-----------------------------------------------------------------------------
(* Python str operations *)

UpperCase == <<"A","B","C","D","E","F","G","H","I","J","K","L","M",
               "N","O","P","Q","R","S","T","U","V","W","X","Y","Z">>
LowerCase == <<"a","b","c","d","e","f","g","h","i","j","k","l","m",
               "n","o","p","q","r","s","t","u","v","w","x","y","z">>

LowerMap ==
    [c \in {UpperCase[i] : i \in DOMAIN UpperCase} |->
        LowerCase[CHOOSE i \in DOMAIN UpperCase : UpperCase[i] = c]]

LowerChar(c) == IF c \in DOMAIN LowerMap THEN LowerMap[c] ELSE c

\* str.lower()
Lower(s) == [i \in 1..Len(s) |-> LowerChar(s[i])]

IsSpace(c) == c \in {" ", "\t", "\n", "\r"}

RECURSIVE LStrip(_)
LStrip(s) == IF s # <<>> /\ IsSpace(Head(s)) THEN LStrip(Tail(s)) ELSE s

RECURSIVE RStrip(_)
RStrip(s) == IF s # <<>> /\ IsSpace(s[Len(s)]) THEN RStrip(SubSeq(s, 1, Len(s) - 1)) ELSE s

\* str.strip()
Strip(s) == RStrip(LStrip(s))

\* sub in s
Contains(sub, s) ==
    \E i \in 0..(Len(s) - Len(sub)) : SubSeq(s, i + 1, i + Len(sub)) = sub

HexDigit == <<"0","1","2","3","4","5","6","7","8","9","a","b","c","d","e","f">>

RECURSIVE Hex(_)
Hex(n) == IF n < 16 THEN <<HexDigit[n + 1]>>
          ELSE Hex(n \div 16) \o <<HexDigit[(n % 16) + 1]>>

RECURSIVE Dec(_)
\* str(n) for n >= 0, as an f-string formats an int
Dec(n) == IF n < 10 THEN <<HexDigit[n + 1]>>
          ELSE Dec(n \div 10) \o <<HexDigit[(n % 10) + 1]>>

-----------------------------------------------------------------------------
(* Text literals of the source *)

\* "true"
TrueLiteral ==
    <<"t","r","u","e">>
\* "0x1"
Token0x1 ==
    <<"0","x","1">>
\* "0x0"
Token0x0 ==
    <<"0","x","0">>
\* "unable to find"
UnableToFind ==
    <<"u","n","a","b","l","e"," ","t","o"," ","f","i","n","d">>
\* "Command timed out after "
TimedOutAfter ==
    <<"C","o","m","m","a","n","d"," ","t","i","m","e","d"," ","o","u","t"," ",
      "a","f","t","e","r"," ">>
\* " seconds"
Seconds ==
    <<" ","s","e","c","o","n","d","s">>
\* "PowerShell not found on this system"
PsNotFound ==
    <<"P","o","w","e","r","S","h","e","l","l"," ","n","o","t"," ","f","o","u",
      "n","d"," ","o","n"," ","t","h","i","s"," ","s","y","s","t","e","m">>
\* "Error executing command: "
ErrorExecuting ==
    <<"E","r","r","o","r"," ","e","x","e","c","u","t","i","n","g"," ","c","o",
      "m","m","a","n","d",":"," ">>
\* "Unknown error"
UnknownError ==
    <<"U","n","k","n","o","w","n"," ","e","r","r","o","r">>
\* "Access denied or registry key not accessible"
AccessDeniedOrKey ==
    <<"A","c","c","e","s","s"," ","d","e","n","i","e","d"," ","o","r"," ","r",
      "e","g","i","s","t","r","y"," ","k","e","y"," ","n","o","t"," ","a","c",
      "c","e","s","s","i","b","l","e">>
\* "GPO path not accessible, using normal registry only"
GpoNotAccessible ==
    <<"G","P","O"," ","p","a","t","h"," ","n","o","t"," ","a","c","c","e","s",
      "s","i","b","l","e",","," ","u","s","i","n","g"," ","n","o","r","m","a",
      "l"," ","r","e","g","i","s","t","r","y"," ","o","n","l","y">>
\* "GPO registry set to "
GpoSetTo ==
    <<"G","P","O"," ","r","e","g","i","s","t","r","y"," ","s","e","t"," ","t",
      "o"," ">>
\* "Normal registry set to "
NormalSetTo ==
    <<"N","o","r","m","a","l"," ","r","e","g","i","s","t","r","y"," ","s","e",
      "t"," ","t","o"," ">>
\* "GPO registry failed: "
GpoFailed ==
    <<"G","P","O"," ","r","e","g","i","s","t","r","y"," ","f","a","i","l","e",
      "d",":"," ">>
\* "Normal registry failed: "
NormalFailed ==
    <<"N","o","r","m","a","l"," ","r","e","g","i","s","t","r","y"," ","f","a",
      "i","l","e","d",":"," ">>
\* "; "
Sep ==
    <<";"," ">>

\* the timeout parameter's default value
DefaultTimeout == 30

-----------------------------------------------------------------------------
(* What the host's programs print (the environment of the command runners) *)

\* PowerShell prints a Boolean as True or False, followed by a line break
PsTrue ==
    <<"T","r","u","e","\r","\n">>
PsFalse ==
    <<"F","a","l","s","e","\r","\n">>
\* "Set-SmbClientConfiguration : Access is denied."
PsAccessDenied ==
    <<"S","e","t","-","S","m","b","C","l","i","e","n","t","C","o","n","f","i",
      "g","u","r","a","t","i","o","n"," ",":"," ","A","c","c","e","s","s"," ",
      "i","s"," ","d","e","n","i","e","d",".","\r","\n">>
\* reg.exe: "ERROR: Access is denied."
AccessDenied ==
    <<"E","R","R","O","R",":"," ","A","c","c","e","s","s"," ","i","s"," ","d",
      "e","n","i","e","d",".","\r","\n">>
\* reg.exe: "ERROR: The system was unable to find the specified registry key or value."
RegNotFound ==
    <<"E","R","R","O","R",":"," ","T","h","e"," ","s","y","s","t","e","m"," ",
      "w","a","s"," ","u","n","a","b","l","e"," ","t","o"," ","f","i","n","d",
      " ","t","h","e"," ","s","p","e","c","i","f","i","e","d"," ","r","e","g",
      "i","s","t","r","y"," ","k","e","y"," ","o","r"," ","v","a","l","u","e",
      ".","\r","\n">>
\* reg.exe: "The operation completed successfully."
RegOk ==
    <<"T","h","e"," ","o","p","e","r","a","t","i","o","n"," ","c","o","m","p",
      "l","e","t","e","d"," ","s","u","c","c","e","s","s","f","u","l","l","y",
      ".","\r","\n">>
\* reg query prints the key, then the value line "    name    REG_DWORD    0x<hex>"
GpoHeader ==
    <<"\r","\n","H","K","E","Y","_","L","O","C","A","L","_","M","A","C","H",
      "I","N","E","\\","S","O","F","T","W","A","R","E","\\","P","o","l","i",
      "c","i","e","s","\\","M","i","c","r","o","s","o","f","t","\\","W","i",
      "n","d","o","w","s","\\","L","a","n","m","a","n","W","o","r","k","s",
      "t","a","t","i","o","n","\r","\n">>
NormalHeader ==
    <<"\r","\n","H","K","E","Y","_","L","O","C","A","L","_","M","A","C","H",
      "I","N","E","\\","S","Y","S","T","E","M","\\","C","u","r","r","e","n",
      "t","C","o","n","t","r","o","l","S","e","t","\\","S","e","r","v","i",
      "c","e","s","\\","L","a","n","m","a","n","W","o","r","k","s","t","a",
      "t","i","o","n","\\","P","a","r","a","m","e","t","e","r","s","\r","\n">>
ValueLine ==
    <<" "," "," "," ","A","l","l","o","w","I","n","s","e","c","u","r","e","G",
      "u","e","s","t","A","u","t","h"," "," "," "," ","R","E","G","_","D","W",
      "O","R","D"," "," "," "," ","0","x">>
\* str(e) of the OSError raised when the program to run does not exist
WinError2 ==
    <<"[","W","i","n","E","r","r","o","r"," ","2","]"," ","T","h","e"," ","s",
      "y","s","t","e","m"," ","c","a","n","n","o","t"," ","f","i","n","d"," ",
      "t","h","e"," ","f","i","l","e"," ","s","p","e","c","i","f","i","e","d">>

-----------------------------------------------------------------------------
(* utils/powershell.py: the command runners *)

\* how a subprocess.run call can end
Exit(code, out, err) ==
    [kind |-> "exit", returncode |-> code, stdout |-> out, stderr |-> err, msg |-> <<>>]
TimeoutExpired ==
    [kind |-> "timeout", returncode |-> 0, stdout |-> <<>>, stderr |-> <<>>, msg |-> <<>>]
FileNotFoundError ==
    [kind |-> "missing", returncode |-> 0, stdout |-> <<>>, stderr |-> <<>>, msg |-> WinError2]

\* any other exception subprocess.run raises, str(e) being msg
OtherError(msg) ==
    [kind |-> "error", returncode |-> 0, stdout |-> <<>>, stderr |-> <<>>, msg |-> msg]

\* the (success, stdout, stderr) triple every runner returns
Result(ok, out, err) == [success |-> ok, stdout |-> out, stderr |-> err]

\* a faulty variant of run_powershell_command: the message of a timeout names the
\* default timeout, not the one the call was given
run_powershell_command_DefaultInMessage(p, timeout) ==
    CASE p.kind = "exit" ->
            Result(p.returncode = 0, Strip(p.stdout), Strip(p.stderr))
      [] p.kind = "timeout" ->
            Result(FALSE, <<>>, TimedOutAfter \o Dec(DefaultTimeout) \o Seconds)
      [] p.kind = "missing" ->
            Result(FALSE, <<>>, PsNotFound)
      [] OTHER ->
            Result(FALSE, <<>>, ErrorExecuting \o p.msg)

run_powershell_command(p, timeout) ==
    CASE p.kind = "exit" ->
            Result(p.returncode = 0, Strip(p.stdout), Strip(p.stderr))
      [] p.kind = "timeout" ->
            Result(FALSE, <<>>, TimedOutAfter \o Dec(timeout) \o Seconds)
      [] p.kind = "missing" ->
            Result(FALSE, <<>>, PsNotFound)
      [] OTHER ->
            Result(FALSE, <<>>, ErrorExecuting \o p.msg)

\* a faulty variant of run_cmd_command: an exception's text is returned as it is
run_cmd_command_BareMessage(p, timeout) ==
    CASE p.kind = "exit" ->
            Result(p.returncode = 0, Strip(p.stdout), Strip(p.stderr))
      [] p.kind = "timeout" ->
            Result(FALSE, <<>>, TimedOutAfter \o Dec(timeout) \o Seconds)
      [] OTHER ->
            Result(FALSE, <<>>, p.msg)

run_cmd_command(p, timeout) ==
    CASE p.kind = "exit" ->
            Result(p.returncode = 0, Strip(p.stdout), Strip(p.stderr))
      [] p.kind = "timeout" ->
            Result(FALSE, <<>>, TimedOutAfter \o Dec(timeout) \o Seconds)
      [] OTHER ->
            Result(FALSE, <<>>, ErrorExecuting \o p.msg)

\* an external command line, by its parts
Command(shell, verb, target, value) ==
    [shell |-> shell, verb |-> verb, target |-> target, value |-> value]

-----------------------------------------------------------------------------
(* The registry and reg.exe *)

\* the two keys that can hold AllowInsecureGuestAuth
gpo_key_path == "gpo"
normal_key_path == "normal"
KeyPaths == {gpo_key_path, normal_key_path}

\* a key holds no value (<<>>) or one DWORD (<<n>>): 1 if enabled else 0 once the
\* program wrote it, any data on a host it has not written to
RegValues == {<<>>} \cup {<<n>> : n \in {0, 1}}
HostRegValues == {<<>>} \cup {<<n>> : n \in 0..MaxRegData}

\* reg add either writes the value or is refused
AddModes == {"ok", "denied"}
\* reg query runs (and finds the value or not), is refused, reports the missing
\* value on its standard output, or outlives the timeout
QueryModes == {"run", "denied", "merged", "timeout"}

RegAddProc(mode) ==
    IF mode = "ok" THEN Exit(0, RegOk, <<>>) ELSE Exit(1, <<>>, AccessDenied)

RegAfterAdd(r, key, data, mode) ==
    IF mode = "ok" THEN [r EXCEPT ![key] = <<data>>] ELSE r

RegQueryProc(r, key, mode) ==
    CASE mode = "run" /\ r[key] # <<>> ->
            Exit(0, (IF key = gpo_key_path THEN GpoHeader ELSE NormalHeader)
                    \o ValueLine \o Hex(r[key][1]) \o <<"\r", "\n", "\r", "\n">>, <<>>)
      [] mode = "run" /\ r[key] = <<>> -> Exit(1, <<>>, RegNotFound)
      [] mode = "merged" -> Exit(1, RegNotFound, <<>>)
      [] mode = "timeout" -> TimeoutExpired
      [] OTHER -> Exit(1, <<>>, AccessDenied)

\* reg add "<key>" /v AllowInsecureGuestAuth /t REG_DWORD /d <data> /f
set_registry_value(p) == run_cmd_command(p, DefaultTimeout)
SetRegistryCommand(key, data) == Command("cmd", "reg add /f", key, IF data = 1 THEN "1" ELSE "0")

\* reg query "<key>" /v AllowInsecureGuestAuth
get_registry_value(p) == run_cmd_command(p, DefaultTimeout)
GetRegistryCommand(key) == Command("cmd", "reg query", key, "")

RECURSIVE Join(_, _)
\* sep.join(parts)
Join(sep, parts) ==
    IF parts = <<>> THEN <<>>
    ELSE IF Len(parts) = 1 THEN parts[1]
    ELSE parts[1] \o sep \o Join(sep, Tail(parts))

\* what set_smb_insecure_guest_auth returns, with the commands it issued
Written(ok, out, err, cmds) ==
    [success |-> ok, stdout |-> out, stderr |-> err, issued |-> cmds]

\* a faulty variant of set_smb_insecure_guest_auth: only the policy write counts
set_smb_insecure_guest_auth_PolicyOnly(flag, p1, p2) ==
    LET value_data == IF flag THEN 1 ELSE 0
        r1 == set_registry_value(p1)
        r2 == set_registry_value(p2)
        combined_result ==
            Join(Sep, << IF r1.success THEN GpoSetTo \o Dec(value_data)
                                       ELSE GpoFailed \o r1.stderr,
                         IF r2.success THEN NormalSetTo \o Dec(value_data)
                                       ELSE NormalFailed \o r2.stderr >>)
        cmds == << SetRegistryCommand(gpo_key_path, value_data),
                   SetRegistryCommand(normal_key_path, value_data) >>
    IN  IF r1.success THEN Written(TRUE, combined_result, <<>>, cmds)
        ELSE Written(FALSE, <<>>, combined_result, cmds)

\* a faulty variant of set_smb_insecure_guest_auth: the normal key is written only
\* when the policy write failed
set_smb_insecure_guest_auth_SkipNormal(flag, p1, p2) ==
    LET value_data == IF flag THEN 1 ELSE 0
        r1 == set_registry_value(p1)
        r2 == set_registry_value(p2)
    IN  IF r1.success
        THEN Written(TRUE, GpoSetTo \o Dec(value_data), <<>>,
                     << SetRegistryCommand(gpo_key_path, value_data) >>)
        ELSE Written(r2.success,
                     IF r2.success THEN NormalSetTo \o Dec(value_data) ELSE <<>>,
                     IF r2.success THEN GpoNotAccessible ELSE GpoFailed \o r1.stderr,
                     << SetRegistryCommand(gpo_key_path, value_data),
                        SetRegistryCommand(normal_key_path, value_data) >>)

\* set_smb_insecure_guest_auth(enabled); p1 and p2 are how the two reg add
\* processes end
set_smb_insecure_guest_auth(flag, p1, p2) ==
    LET value_data == IF flag THEN 1 ELSE 0
        r1 == set_registry_value(p1)
        r2 == set_registry_value(p2)
        results ==
            << IF r1.success THEN GpoSetTo \o Dec(value_data)
                             ELSE GpoFailed \o r1.stderr,
               IF r2.success THEN NormalSetTo \o Dec(value_data)
                             ELSE NormalFailed \o r2.stderr >>
        combined_result == Join(Sep, results)
        cmds == << SetRegistryCommand(gpo_key_path, value_data),
                   SetRegistryCommand(normal_key_path, value_data) >>
    IN  IF r1.success THEN Written(TRUE, combined_result, <<>>, cmds)
        ELSE IF r2.success THEN Written(TRUE, combined_result, GpoNotAccessible, cmds)
        ELSE Written(FALSE, <<>>, combined_result, cmds)

\* the registry after set_smb_insecure_guest_auth(enabled), the two writes
\* meeting modes m1 and m2
RegAfterSet(r, flag, m1, m2) ==
    LET value_data == IF flag THEN 1 ELSE 0
    IN  RegAfterAdd(RegAfterAdd(r, gpo_key_path, value_data, m1),
                    normal_key_path, value_data, m2)

\* the (success, value, error) triple of get_smb_insecure_guest_auth, with the
\* commands it issued
Reading(ok, v, err, cmds) ==
    [success |-> ok, value |-> v, error |-> err, issued |-> cmds]

\* a faulty variant of GpoValueExists: the policy key's value is accepted only when it
\* is 1, so a policy value of 0 is passed over for the normal key
GpoValueExists_OnlyOne(q1) == q1.success /\ Contains(Token0x1, q1.stdout)

\* line 254: the policy key's query succeeded and its output carries a value
GpoValueExists(q1) ==
    q1.success /\ (Contains(Token0x1, q1.stdout) \/ Contains(Token0x0, q1.stdout))

\* a faulty variant of NormalQueryFailed: a value reported as not found is a failure
NormalQueryFailed_NoDefault(q2, cmds) == Reading(FALSE, FALSE, q2.stderr, cmds)

\* a faulty variant of NormalQueryFailed: every failed query gives the default
NormalQueryFailed_AlwaysDefault(q2, cmds) == Reading(TRUE, FALSE, <<>>, cmds)

\* lines 283-288: the normal key's query failed
NormalQueryFailed(q2, cmds) ==
    IF \/ Contains(UnableToFind, Lower(q2.stderr))
       \/ Contains(UnableToFind, Lower(q2.stdout))
    THEN Reading(TRUE, FALSE, <<>>, cmds)
    ELSE Reading(FALSE, FALSE, q2.stderr, cmds)

\* get_smb_insecure_guest_auth(); p1 and p2 are how the reg query of the policy
\* key and of the normal key end (the second only on the paths that run it)
get_smb_insecure_guest_auth(p1, p2) ==
    LET q1 == get_registry_value(p1)
        q2 == get_registry_value(p2)
        first == << GetRegistryCommand(gpo_key_path) >>
        both == << GetRegistryCommand(gpo_key_path),
                   GetRegistryCommand(normal_key_path) >>
    IN  IF GpoValueExists(q1)
        THEN IF Contains(Token0x1, q1.stdout) THEN Reading(TRUE, TRUE, <<>>, first)
             ELSE Reading(TRUE, FALSE, <<>>, first)
        ELSE IF q2.success
             THEN IF Contains(Token0x1, q2.stdout) THEN Reading(TRUE, TRUE, <<>>, both)
                  ELSE IF Contains(Token0x0, q2.stdout) THEN Reading(TRUE, FALSE, <<>>, both)
                  ELSE Reading(TRUE, FALSE, <<>>, both)
             ELSE NormalQueryFailed(q2, both)

-----------------------------------------------------------------------------
(* The host's SMB configuration and the Smb*Configuration cmdlets *)

\* EnableInsecureGuestLogons, the client's and the server's RequireSecuritySignature
Settings == {"guest", "client_sig", "server_sig"}

\* a Set-Smb*Configuration call takes effect, reports success without taking
\* effect, is refused, or exits non-zero without a message
SetModes == {"ok", "ignored", "denied", "failed"}
\* a (Get-Smb*Configuration).<property> call prints the value or is refused
GetModes == {"run", "denied"}

\* the ways a command can go on a host of kind h
HostSetModes(h) ==
    CASE h = "elevated" -> {"ok", "ignored"}
      [] h = "restricted" -> {"denied"}
      [] OTHER -> SetModes
HostGetModes(h) == IF h = "any" THEN GetModes ELSE {"run"}
HostAddModes(h) ==
    CASE h = "elevated" -> {"ok"}
      [] h = "restricted" -> {"denied"}
      [] OTHER -> AddModes
HostQueryModes(h) == IF h = "any" THEN QueryModes ELSE {"run"}

SmbSetProc(mode) ==
    CASE mode \in {"ok", "ignored"} -> Exit(0, <<>>, <<>>)
      [] mode = "denied" -> Exit(1, <<>>, PsAccessDenied)
      [] OTHER -> Exit(1, <<>>, <<>>)

SmbAfterSet(cfg, s, v, mode) ==
    IF mode = "ok" THEN [cfg EXCEPT ![s] = v] ELSE cfg

SmbGetProc(cfg, s, mode) ==
    CASE mode = "run" -> Exit(0, IF cfg[s] THEN PsTrue ELSE PsFalse, <<>>)
      [] OTHER -> Exit(1, <<>>, PsAccessDenied)

\* "$true" if checked else "$false"
PsLiteral(v) == IF v THEN "$true" ELSE "$false"

SmbSetCommand(s, v) == Command("powershell", "Set", s, PsLiteral(v))
SmbGetCommand(s) == Command("powershell", "Get", s, "")

\* ui/toggle_switch.py: toggled is emitted by mousePressEvent (line 110) and by
\* nothing else; setChecked (lines 68-86) only moves the knob
EmitsToggled(method) == method = "mousePressEvent"

\* a faulty variant of StartsApply: every change of a toggle runs its handler
StartsApply_Always(method, loading_flag) == TRUE

\* a change of a toggle made by the named method starts the toggle's apply
\* handler when toggled is emitted and the handler passes its guard
\* "if self._loading: return" (ui/smb_tab.py lines 493, 578, 637)
StartsApply(method, loading_flag) == EmitsToggled(method) /\ ~loading_flag

\* the set command a setChecked(v) on the toggle of setting s sets off while
\* _loading is True (the reverts of the apply handlers and the reload):
\* none, unless the change starts the handler
Reentered(s, v) ==
    IF StartsApply("setChecked", TRUE) THEN << SmbSetCommand(s, v) >> ELSE <<>>

\* a faulty variant of ParseBool: the comparison is case-sensitive
ParseBool_CaseSensitive(out) == Strip(out) = TrueLiteral

\* stdout.strip().lower() == "true"
ParseBool(out) == Lower(Strip(out)) = TrueLiteral

\* a table, evaluated over its whole domain once instead of at each use
Tabulated(f) == IF f = f THEN f ELSE f

\* run_powershell_command on a Set-Smb*Configuration command, by how it goes
SmbSetResult ==
    Tabulated([mode \in SetModes |->
        run_powershell_command(SmbSetProc(mode), DefaultTimeout)])

\* run_powershell_command on a (Get-Smb*Configuration).<property> command, by
\* the value the host holds and how the command goes
SmbGetResult ==
    Tabulated([v \in BOOLEAN, mode \in GetModes |->
        run_powershell_command(
            SmbGetProc([s \in Settings |-> v], "guest", mode), DefaultTimeout)])

\* set_smb_insecure_guest_auth(flag), by how the two reg add commands go
GuestAuthWritten ==
    Tabulated([flag \in BOOLEAN, m1 \in AddModes, m2 \in AddModes |->
        set_smb_insecure_guest_auth(flag, RegAddProc(m1), RegAddProc(m2))])

\* get_smb_insecure_guest_auth(), by the registry's content and how the two
\* reg query commands go
GuestAuthReading ==
    Tabulated([r \in [KeyPaths -> RegValues], k1 \in QueryModes, k2 \in QueryModes |->
        get_smb_insecure_guest_auth(RegQueryProc(r, gpo_key_path, k1),
                                    RegQueryProc(r, normal_key_path, k2))])

-----------------------------------------------------------------------------
(* ui/smb_tab.py: SMBTab *)

DEFAULT_SMB_CONFIG ==
    [s \in Settings |->
        CASE s = "guest" -> FALSE
          [] s = "client_sig" -> FALSE
          [] s = "server_sig" -> FALSE]

\* what _save_settings writes (last_updated, a timestamp, is left out)
SavedSettings(insecure_guest, client_sig, server_sig) ==
    [insecure_guest_logons |-> insecure_guest,
     client_require_security_signature |-> client_sig,
     server_require_security_signature |-> server_sig]

\* config/smb_settings.json is absent (<<>>) or holds one of: a JSON document
\* ("json", with the settings it carries), UTF-8 text that is not JSON ("text":
\* an empty or half-written file), bytes that are not UTF-8 ("bytes"), or
\* anything at all behind a refused open() ("locked")
FileOf(kind, value) == << [kind |-> kind, value |-> value] >>
SettingsFile(insecure_guest, client_sig, server_sig) ==
    FileOf("json", << SavedSettings(insecure_guest, client_sig, server_sig) >>)
TextFile == FileOf("text", <<>>)
BytesFile == FileOf("bytes", <<>>)
LockedFile == FileOf("locked", <<>>)

\* a faulty variant of _save_settings: the file is left as it was
_save_settings_Skipped(file, can_write, insecure_guest, client_sig, server_sig) ==
    file

\* a faulty variant of _save_settings: the two signature values are written as the
\* defaults
_save_settings_Defaults(file, can_write, insecure_guest, client_sig, server_sig) ==
    IF can_write
    THEN SettingsFile(insecure_guest, DEFAULT_SMB_CONFIG["client_sig"],
                      DEFAULT_SMB_CONFIG["server_sig"])
    ELSE file

\* the file after _save_settings(insecure_guest, client_sig, server_sig): open()
\* for writing raises IOError when the file cannot be written, which is caught
_save_settings(file, can_write, insecure_guest, client_sig, server_sig) ==
    IF can_write THEN SettingsFile(insecure_guest, client_sig, server_sig) ELSE file

\* what a call of _load_saved_settings comes to: the value returned (None is
\* <<>>), or the exception that leaves it
Loaded(raised, value) == [raised |-> raised, value |-> value]

\* _load_saved_settings(): json.load's value, None when the file is absent or
\* open() raises IOError or json.load raises JSONDecodeError; the
\* UnicodeDecodeError of a file that is not UTF-8 is neither
_load_saved_settings(file) ==
    CASE file = <<>> -> Loaded("", <<>>)
      [] file[1].kind = "locked" -> Loaded("", <<>>)
      [] file[1].kind = "json" -> Loaded("", file[1].value)
      [] file[1].kind = "text" -> Loaded("", <<>>)
      [] OTHER -> Loaded("UnicodeDecodeError", <<>>)

\* the saved value of setting s, where saved_settings holds the settings
SavedValue(saved, s) ==
    CASE s = "guest" -> saved.value[1].insecure_guest_logons
      [] s = "client_sig" -> saved.value[1].client_require_security_signature
      [] s = "server_sig" -> saved.value[1].server_require_security_signature

\* an append_output line: its fixed text, the state word and the text put into it
Line(text, state, detail) == [text |-> text, state |-> state, detail |-> detail]

\* update_status(message, success)
Status(message, state, success) ==
    [message |-> message, state |-> state, success |-> success]

\* a faulty variant of LoadedValue: the toggle is given the default value
\* whatever the query returned
LoadedValue_Default(s, r, saved) == DEFAULT_SMB_CONFIG[s]

\* a faulty variant of LoadedValue: a failed query shows the saved value
LoadedValue_FromFile(s, r, saved) ==
    IF r.success THEN ParseBool(r.stdout)
    ELSE IF saved.value # <<>> THEN SavedValue(saved, s)
    ELSE DEFAULT_SMB_CONFIG[s]

\* one of load_current_config's three queries: the value it puts on the toggle
\* (saved_settings is in scope and is not used)
LoadedValue(s, r, saved) ==
    IF r.success THEN ParseBool(r.stdout) ELSE DEFAULT_SMB_CONFIG[s]

\* the toggles after load_current_config, the query of setting s ending as gm[s]
LoadedToggles(cfg, gm, saved) ==
    [s \in Settings |->
        LoadedValue(s, SmbGetResult[cfg[s], gm[s]], saved)]

\* the lines load_current_config appends
LoadedLines(cfg, gm) ==
    LET r(s) == SmbGetResult[cfg[s], gm[s]]
        warn(s, text) == IF r(s).success THEN <<>> ELSE << Line(text, "", r(s).stderr) >>
    IN  warn("guest", "Failed to get Guest Logons status: ")
        \o warn("client_sig", "Failed to get Client Security Signature status: ")
        \o warn("server_sig", "Failed to get Server Security Signature status: ")
        \o << Line("Current SMB configuration loaded successfully", "", <<>>) >>

LoadCommands == << SmbGetCommand("guest"), SmbGetCommand("client_sig"),
                   SmbGetCommand("server_sig") >>

\* load_current_config's local variables when it returns, with the file as
\* the call found it
LoadLocals(file, cfg, gm) ==
    [handler |-> "load_current_config",
     found |-> file,
     raised |-> "",
     saved_settings |-> _load_saved_settings(file).value,
     success |-> [s \in Settings |-> SmbGetResult[cfg[s], gm[s]].success]]

\* load_current_config left by the exception of _load_saved_settings (line
\* 444), before any query was made
LoadRaised(file) ==
    [handler |-> "load_current_config",
     found |-> file,
     raised |-> _load_saved_settings(file).raised,
     saved_settings |-> <<>>,
     success |-> [s \in Settings |-> FALSE]]

\* a faulty variant of Returned: the overlay is left showing
Returned_OverlayLeft ==
    /\ overlay' = TRUE
    /\ enabled' = TRUE
    /\ loading' = FALSE

\* how every toggle handler ends: loading_overlay.hide(),
\* set_toggles_enabled(True), with _loading back to False
Returned ==
    /\ overlay' = FALSE
    /\ enabled' = TRUE
    /\ loading' = FALSE

\* the body of load_current_config (lines 437-489), run for a click on Refresh
\* (caller = <<>>) or as the last call of the handler whose local variables
\* are caller and which has appended the lines said
LoadBody(caller, said) ==
    /\ IF _load_saved_settings(config_file).raised # ""
       THEN \* the exception leaves the handler after lines 439-441
            /\ loading' = TRUE
            /\ enabled' = FALSE
            /\ status' = Status("Loading configuration...", "", TRUE)
            /\ commands' = <<>>
            /\ locals' = IF caller = <<>> THEN LoadRaised(config_file)
                          ELSE [caller EXCEPT !.load = LoadRaised(config_file)]
            /\ appended' = IF caller = <<>> THEN appended ELSE said
            /\ UNCHANGED <<checked, config_file>>
       ELSE
         /\ \E gm \in [Settings -> HostGetModes(host)] :
            LET toggles == LoadedToggles(smb, gm, _load_saved_settings(config_file))
            IN  /\ checked' = toggles
                /\ status' = Status("Configuration loaded", "", TRUE)
                /\ appended' = said \o LoadedLines(smb, gm)
                /\ config_file' = _save_settings(config_file, writable, toggles["guest"],
                                                 toggles["client_sig"], toggles["server_sig"])
                /\ commands' = LoadCommands
                                \o Reentered("guest", toggles["guest"])
                                \o Reentered("client_sig", toggles["client_sig"])
                                \o Reentered("server_sig", toggles["server_sig"])
                /\ locals' = IF caller = <<>> THEN LoadLocals(config_file, smb, gm)
                              ELSE [caller EXCEPT !.load = LoadLocals(config_file, smb, gm)]
         /\ enabled' = TRUE
         /\ loading' = FALSE
    /\ UNCHANGED <<overlay, smb, reg>>

\* a click on the Refresh Status button
load_current_config ==
    /\ enabled
    /\ UNCHANGED <<writable, net, ops, fw, host>>
    /\ LoadBody(<<>>, <<>>)

\* "ENABLED" if checked else "DISABLED"
GuestState(c) == IF c THEN "ENABLED" ELSE "DISABLED"

\* a faulty variant of GuestVerified: the value read back is not compared
GuestVerified_Unchecked(c, verify) == verify.success

\* lines 515-519: the read-back succeeded and gives the requested value
GuestVerified(c, verify) == verify.success /\ ParseBool(verify.stdout) = c

\* a faulty variant of GuestRegVerified: the value read is tested, not compared
GuestRegVerified_Truthy(c, rd) == rd.success /\ rd.value

\* line 542: the registry read succeeded and gives the requested value
GuestRegVerified(c, rd) == rd.success /\ rd.value = c

\* a faulty variant of GuestRevert: the toggle is left as clicked
GuestRevert_Keep(c) == c

\* lines 557 and 565: the value the guest toggle is put back to
GuestRevert(c) == ~c

\* line 568: reg_stderr if reg_stderr else "Access denied or ..."
GuestErrorMsg(reg_stderr) == IF reg_stderr # <<>> THEN reg_stderr ELSE AccessDeniedOrKey

\* the handler's local variables when it returns (FALSE or empty where the
\* path taken never assigned them)
GuestLocals(c, set, verify, w, rd) ==
    [handler |-> "on_guest_toggle_changed", checked |-> c,
     success |-> set.success, stderr |-> set.stderr,
     verify_success |-> verify.success,
     actual_value |-> verify.success /\ ParseBool(verify.stdout),
     reg_success |-> w.success, reg_stderr |-> w.stderr,
     reg_verify_success |-> rd.success, reg_actual_value |-> rd.value,
     reg_verify_error |-> rd.error]

NoWrite == Written(FALSE, <<>>, <<>>, <<>>)
NoRead == Reading(FALSE, FALSE, <<>>, <<>>)

\* the guest toggle is clicked (mousePressEvent flips it and emits toggled) and
\* on_guest_toggle_changed(checked) runs
on_guest_toggle_changed ==
    /\ enabled
    /\ UNCHANGED <<writable, net, ops, fw, host>>
    /\ LET c == ~checked["guest"]
           first == Line("Attempting to set Insecure Guest Logons to ", GuestState(c), <<>>)
           fallback == Line("PowerShell method didn't apply. Trying registry method...", "", <<>>)
       IN
       IF ~StartsApply("mousePressEvent", loading)
       THEN /\ checked' = [checked EXCEPT !["guest"] = c]
            /\ UNCHANGED <<enabled, overlay, loading, config_file, status, appended,
                           smb, reg, commands, locals>>
       ELSE
       \E sm \in HostSetModes(host), gm \in HostGetModes(host) :
         LET set == SmbSetResult[sm]
             smb1 == SmbAfterSet(smb, "guest", c, sm)
             verify == SmbGetResult[smb1["guest"], gm]
             primary == << SmbSetCommand("guest", c), SmbGetCommand("guest") >>
         IN
         /\ smb' = smb1
         /\ Returned
         /\ IF GuestVerified(c, verify)
            THEN \* success with the PowerShell method
                 /\ checked' = [checked EXCEPT !["guest"] = c]
                 /\ status' = Status("Insecure Guest Logons: ", GuestState(c), TRUE)
                 /\ appended' = << first,
                        Line("Insecure Guest Logons successfully (PowerShell)", GuestState(c), <<>>) >>
                 /\ config_file' = _save_settings(config_file, writable, c,
                                                  checked["client_sig"], checked["server_sig"])
                 /\ commands' = primary
                 /\ locals' = GuestLocals(c, set, verify, NoWrite, NoRead)
                 /\ reg' = reg
            ELSE \* registry fallback
              \E a1 \in HostAddModes(host), a2 \in HostAddModes(host) :
                LET w == GuestAuthWritten[c, a1, a2]
                    reg1 == RegAfterSet(reg, c, a1, a2)
                IN
                /\ reg' = reg1
                /\ IF w.success
                   THEN \E rd \in {GuestAuthReading[reg1, k1, k2] :
                                       k1 \in HostQueryModes(host),
                                       k2 \in HostQueryModes(host)} :
                     /\ commands' = primary \o w.issued \o rd.issued
                                    \o (IF GuestRegVerified(c, rd) THEN <<>>
                                        ELSE Reentered("guest", GuestRevert(c)))
                     /\ locals' = GuestLocals(c, set, verify, w, rd)
                     /\ IF GuestRegVerified(c, rd)
                        THEN /\ checked' = [checked EXCEPT !["guest"] = c]
                             /\ status' = Status("Insecure Guest Logons: ", GuestState(c), TRUE)
                             /\ appended' = << first, fallback,
                                  Line("Insecure Guest Logons successfully (Registry)",
                                       GuestState(c), <<>>),
                                  Line("Note: A system restart may be required for changes to take full effect.",
                                       "", <<>>) >>
                             /\ config_file' = _save_settings(config_file, writable, c,
                                                              checked["client_sig"],
                                                              checked["server_sig"])
                        ELSE /\ checked' = [checked EXCEPT !["guest"] = GuestRevert(c)]
                             /\ status' = Status("Setting change not applied", "", FALSE)
                             /\ appended' = << first, fallback,
                                  Line("Error: Registry method failed to apply. Error: ",
                                       "", rd.error) >>
                             /\ config_file' = config_file
                   ELSE /\ commands' = primary \o w.issued
                                          \o Reentered("guest", GuestRevert(c))
                        /\ locals' = GuestLocals(c, set, verify, w, NoRead)
                        /\ checked' = [checked EXCEPT !["guest"] = GuestRevert(c)]
                        /\ status' = Status("Setting change not applied - requires admin rights",
                                            "", FALSE)
                        /\ appended' = << first, fallback,
                             Line("Error: Both methods failed. Registry error: ", "",
                                  GuestErrorMsg(w.stderr)),
                             Line("Make sure the application is running as Administrator.",
                                  "", <<>>) >>
                        /\ config_file' = config_file

\* a faulty variant of SigSaves: the settings are saved on every path
SigSaves_Always(outcome) == TRUE

\* the paths of a signature handler that call _save_settings (lines 602, 619
\* and 661, 678)
SigSaves(outcome) == outcome \in {"applied", "unverified"}

\* "REQUIRED" if checked else "NOT REQUIRED"
SigState(c) == IF c THEN "REQUIRED" ELSE "NOT REQUIRED"

\* a faulty variant of SigOutcome: a read-back that fails counts as a failed change
SigOutcome_Strict(c, set, verify) ==
    IF set.success /\ verify.success
    THEN IF ParseBool(verify.stdout) = c THEN "applied" ELSE "mismatch"
    ELSE "failed"

\* lines 590-630 and 649-689: which branch the handler takes, from the set
\* command's result and the read-back's
SigOutcome(c, set, verify) ==
    IF set.success
    THEN IF verify.success
         THEN IF ParseBool(verify.stdout) = c THEN "applied" ELSE "mismatch"
         ELSE "unverified"
    ELSE "failed"

\* a faulty variant of SigMismatchValue: the toggle is left as clicked
SigMismatchValue_Keep(c, actual_value) == c

\* lines 610 and 669: on a mismatch the toggle shows what the read-back gave
SigMismatchValue(c, actual_value) == actual_value

\* a faulty variant of SigRevert: the toggle is left as clicked
SigRevert_Keep(c) == c

\* lines 627 and 686: on a failed set the toggle is put back
SigRevert(c) == ~c

\* lines 630 and 689: stderr if stderr else 'Unknown error'
SigErrorText(stderr) == IF stderr # <<>> THEN stderr ELSE UnknownError

SigLocals(h, c, set, verify) ==
    [handler |-> h, checked |-> c,
     success |-> set.success, stderr |-> set.stderr,
     verify_success |-> verify.success,
     actual_value |-> verify.success /\ ParseBool(verify.stdout)]

NoResult == Result(FALSE, <<>>, <<>>)

\* on_client_sig_toggle_changed and on_server_sig_toggle_changed are the same
\* code for setting s, handler h and label name: the toggle is clicked
\* (mousePressEvent flips it and emits toggled) and the handler runs
SigToggleChanged(s, h, name) ==
    /\ enabled
    /\ UNCHANGED <<writable, net, ops, fw, host>>
    /\ LET c == ~checked[s]
           flipped == [checked EXCEPT ![s] = c]
           saved == _save_settings(config_file, writable, flipped["guest"],
                                   flipped["client_sig"], flipped["server_sig"])
       IN
       IF ~StartsApply("mousePressEvent", loading)
       THEN /\ checked' = flipped
            /\ UNCHANGED <<enabled, overlay, loading, config_file, status, appended,
                           smb, reg, commands, locals>>
       ELSE
       \E sm \in HostSetModes(host) :
         LET set == SmbSetResult[sm]
             smb1 == SmbAfterSet(smb, s, c, sm)
         IN
         \E verify \in IF set.success
                       THEN {SmbGetResult[smb1[s], gm] : gm \in HostGetModes(host)}
                       ELSE {NoResult} :
           LET actual_value == ParseBool(verify.stdout)
               outcome == SigOutcome(c, set, verify)
           IN
           /\ smb' = smb1
           /\ reg' = reg
           /\ Returned
           /\ commands' = (IF set.success
                           THEN << SmbSetCommand(s, c), SmbGetCommand(s) >>
                           ELSE << SmbSetCommand(s, c) >>)
                          \o (CASE outcome = "mismatch" ->
                                     Reentered(s, SigMismatchValue(c, actual_value))
                                [] outcome = "failed" -> Reentered(s, SigRevert(c))
                                [] OTHER -> <<>>)
           /\ config_file' = IF SigSaves(outcome) THEN saved ELSE config_file
           /\ locals' = SigLocals(h, c, set, verify)
           /\ CASE outcome = "applied" ->
                     /\ checked' = flipped
                     /\ status' = Status(name, SigState(c), TRUE)
                     /\ appended' = << Line(name, SigState(c), <<>>) >>
                [] outcome = "mismatch" ->
                     /\ checked' = [checked EXCEPT ![s] = SigMismatchValue(c, actual_value)]
                     /\ status' = Status("Setting change not applied (may require admin rights)",
                                         "", FALSE)
                     /\ appended' = << Line("Error: Setting was not applied. Current value: ",
                                            IF actual_value THEN "True" ELSE "False", <<>>) >>
                [] outcome = "unverified" ->
                     /\ checked' = flipped
                     /\ status' = Status(name, SigState(c), TRUE)
                     /\ appended' = << Line(name, SigState(c) \o " (verification skipped)", <<>>) >>
                [] OTHER ->
                     /\ checked' = [checked EXCEPT ![s] = SigRevert(c)]
                     /\ status' = Status("Failed to change " \o name, "", FALSE)
                     /\ appended' = << Line("Error: ", "", SigErrorText(set.stderr)) >>

on_client_sig_toggle_changed ==
    SigToggleChanged("client_sig", "on_client_sig_toggle_changed", "Client Security Signature")

on_server_sig_toggle_changed ==
    SigToggleChanged("server_sig", "on_server_sig_toggle_changed", "Server Security Signature")

-----------------------------------------------------------------------------
(* The SMB tab *)

FirewallProfiles == {"Domain", "Private", "Public"}

\* no SMB handler in progress, no connection test made, and the Firewall tab
\* as FirewallTab.setup_ui leaves it on a host with every profile enabled
OtherTabsIdle ==
    /\ stack = <<>>
    /\ connection_result_text = <<>>
    /\ profiles = [p \in FirewallProfiles |-> TRUE]
    /\ fw_status = Status("Ready", "", TRUE)
    /\ fw_output = <<>>

\* the Network tab on a host without adapters, no click waiting
NetworkTabIdle ==
    /\ host_adapters = <<>>
    /\ network_adapters = {}
    /\ adapter_combo = <<>>
    /\ net_status = Status("No PCIe adapters found, loading all adapters", "", TRUE)
    /\ net_appended = <<>>
    /\ pending_clicks = 0
    /\ refresh_depth = 0

\* SMBTab.__init__: the toggles as load_current_config leaves them on a host
\* whose three queries run, and the file it has just written
Init ==
    /\ smb \in [Settings -> BOOLEAN]
    /\ reg \in [KeyPaths -> RegValues]
    /\ checked = LoadedToggles(smb, [s \in Settings |-> "run"], Loaded("", <<>>))
    /\ enabled = TRUE
    /\ overlay = FALSE
    /\ loading = FALSE
    /\ config_file = SettingsFile(checked["guest"], checked["client_sig"],
                                   checked["server_sig"])
    /\ status = Status("Configuration loaded", "", TRUE)
    /\ appended = LoadedLines(smb, [s \in Settings |-> "run"])
    /\ commands = LoadCommands
    /\ locals = LoadLocals(<<>>, smb, [s \in Settings |-> "run"])
    /\ writable = TRUE
    /\ NetworkTabIdle
    /\ OtherTabsIdle
    /\ host = "any"

Next ==
    \/ load_current_config
    \/ on_guest_toggle_changed
    \/ on_client_sig_toggle_changed
    \/ on_server_sig_toggle_changed

Spec == Init /\ [][Next]_vars

-----------------------------------------------------------------------------
(* Properties of the toggle handlers *)

AfterGuest == locals.handler = "on_guest_toggle_changed"
AfterClientSig == locals.handler = "on_client_sig_toggle_changed"
AfterServerSig == locals.handler = "on_server_sig_toggle_changed"
AfterSig == AfterClientSig \/ AfterServerSig
AfterApply == AfterGuest \/ AfterSig

\* the setting the last handler applied
Applying == IF AfterGuest THEN "guest"
            ELSE IF AfterClientSig THEN "client_sig" ELSE "server_sig"

Applied == status.success
Failed == ~status.success

\* the registry path was taken: a reg add command was issued
SecondaryInvoked == \E i \in DOMAIN commands : commands[i].verb = "reg add /f"

\* the registry was read back
RegistryRead == \E i \in DOMAIN commands : commands[i].verb = "reg query"

Appended(line) == \E i \in DOMAIN appended : appended[i] = line

RestartNote ==
    Line("Note: A system restart may be required for changes to take full effect.", "", <<>>)

\* the handler's output says the change was applied without verification
Unverified ==
    \E i \in DOMAIN appended :
        appended[i].state = SigState(locals.checked) \o " (verification skipped)"

\* C1 as claimed: when the primary set command fails, the guest-logon handler
\* takes the registry path and the signature handlers never do.
C1_FallbackOnSetFailure ==
    /\ (AfterGuest /\ ~locals.success) => SecondaryInvoked
    /\ (AfterSig /\ ~locals.success) => ~SecondaryInvoked

\* C2: guest logon, desired value V: when the primary set succeeds and the
\* read-back gives the opposite of V, V is written as 1/0 to the policy key and
\* to the normal key; if the registry read that follows gives V, the operation
\* ends applied through the registry, with the restart note, the toggle at V.
C2_SecondaryApplies ==
    (AfterGuest /\ locals.success /\ locals.verify_success
        /\ locals.actual_value # locals.checked)
    => LET V == locals.checked
           data == IF V THEN "1" ELSE "0"
       IN  /\ Len(commands) >= 4
           /\ commands[3] = Command("cmd", "reg add /f", gpo_key_path, data)
           /\ commands[4] = Command("cmd", "reg add /f", normal_key_path, data)
           /\ (RegistryRead /\ locals.reg_verify_success /\ locals.reg_actual_value = V)
                => /\ Applied
                   /\ Appended(Line("Insecure Guest Logons successfully (Registry)",
                                    GuestState(V), <<>>))
                   /\ Appended(RestartNote)
                   /\ checked["guest"] = V

\* guest logon is to be disabled, the set succeeded, the read-back said true,
\* the policy key then read 0 and the operation ended applied
C2_Witness ==
    /\ AfterGuest /\ ~locals.checked
    /\ locals.success /\ locals.verify_success /\ locals.actual_value
    /\ reg[gpo_key_path] = <<0>>
    /\ locals.reg_verify_success /\ ~locals.reg_actual_value
    /\ Len(commands) = 5
    /\ Applied /\ Appended(RestartNote)
    /\ ~checked["guest"]

\* C3 as claimed: for each of the three settings, when the primary set
\* succeeds and the read-back command fails, the operation ends applied,
\* marked unverified, with the toggle at the desired value.
C3_UnverifiedAllThree ==
    (AfterApply /\ locals.success /\ ~locals.verify_success)
    => (Applied /\ Unverified /\ checked[Applying] = locals.checked)

\* C3 as amended: that holds of the client and the server signature
\* requirement; for guest logon a failed read-back sends the operation to the
\* registry path, and it ends applied only when the registry read gives the
\* desired value, failed with the toggle put back otherwise.
C3_UnverifiedAmended ==
    /\ (AfterSig /\ locals.success /\ ~locals.verify_success)
          => (Applied /\ Unverified /\ ~SecondaryInvoked
              /\ checked[Applying] = locals.checked)
    /\ (AfterGuest /\ locals.success /\ ~locals.verify_success)
          => /\ SecondaryInvoked
             /\ ~Unverified
             /\ Applied <=> (locals.reg_success /\ locals.reg_verify_success
                             /\ locals.reg_actual_value = locals.checked)
             /\ Applied => checked["guest"] = locals.checked
             /\ Failed => checked["guest"] = ~locals.checked

\* the server signature handler applied a change it could not read back
C3_Witness ==
    /\ AfterServerSig
    /\ locals.success /\ ~locals.verify_success
    /\ Applied /\ Unverified
    /\ checked["server_sig"] = locals.checked

\* C4: guest logon, registry path taken: when both registry writes fail, or
\* the registry read fails or gives another value than the desired one, the
\* operation ends failed and the toggle is back at the negation of the desired
\* value.
C4_SecondaryFails ==
    (AfterGuest /\ SecondaryInvoked
        /\ (\/ ~locals.reg_success
            \/ ~locals.reg_verify_success
            \/ locals.reg_actual_value # locals.checked))
    => (Failed /\ checked["guest"] = ~locals.checked)

\* the policy key could not be written and still holds the other value
C4_Witness ==
    /\ AfterGuest /\ SecondaryInvoked
    /\ locals.reg_success /\ locals.reg_verify_success
    /\ locals.reg_actual_value # locals.checked
    /\ Failed
    /\ checked["guest"] = ~locals.checked

\* C5 as claimed: client and server signature requirement: when the primary
\* set fails the operation ends failed with the command's error text shown,
\* and the toggle is back at its previous value.
C5_SetFailureShown ==
    (AfterSig /\ ~locals.success)
    => /\ Failed
       /\ Appended(Line("Error: ", "", locals.stderr))
       /\ checked[Applying] = ~locals.checked

\* C5 as amended: the text shown is the command's error text, or "Unknown
\* error" when the command failed without any.
C5_SetFailureAmended ==
    (AfterSig /\ ~locals.success)
    => /\ Failed
       /\ Appended(Line("Error: ", "",
                        IF locals.stderr # <<>> THEN locals.stderr ELSE UnknownError))
       /\ ~SecondaryInvoked
       /\ checked[Applying] = ~locals.checked

\* client signature was to be required, the set was refused, the toggle is off
C5_Witness ==
    /\ AfterClientSig /\ locals.checked
    /\ ~locals.success
    /\ Failed
    /\ Appended(Line("Error: ", "", Strip(PsAccessDenied)))
    /\ ~checked["client_sig"]

\* C6: client and server signature requirement: when the primary set succeeds
\* and the read-back succeeds with another value than the desired one, the
\* operation ends failed and the toggle shows the value read back.
C6_MismatchShowsActual ==
    (AfterSig /\ locals.success /\ locals.verify_success
        /\ locals.actual_value # locals.checked)
    => /\ Failed
       /\ checked[Applying] = locals.actual_value
       /\ checked[Applying] # locals.checked

C6_Witness ==
    /\ AfterClientSig
    /\ locals.success /\ locals.verify_success
    /\ locals.checked /\ ~locals.actual_value
    /\ Failed
    /\ ~checked["client_sig"]

\* C7: each of the three settings, value V, on a consistent store (the set
\* succeeds, the store then holds V, and a get prints what the store holds):
\* the operation ends applied through the primary path, and a primary
\* read-back made right after it parses to V.
C7_ConsistentStore ==
    (AfterApply /\ locals.success /\ locals.verify_success
        /\ smb[Applying] = locals.checked)
    => /\ Applied
       /\ ~SecondaryInvoked
       /\ ~Unverified
       /\ checked[Applying] = locals.checked
       /\ ParseBool(run_powershell_command(SmbGetProc(smb, Applying, "run"),
                                           DefaultTimeout).stdout) = locals.checked

\* guest logon was enabled on a consistent store
C7_Witness ==
    /\ AfterGuest /\ locals.checked
    /\ locals.success /\ locals.verify_success
    /\ smb["guest"]
    /\ Applied /\ ~SecondaryInvoked
    /\ checked["guest"]

-----------------------------------------------------------------------------
(* The registry helpers called on their own, on any host *)

\* get_smb_insecure_guest_auth() is called; the two reg query commands go as
\* k1 and k2 (q2 is recorded only when the normal key was queried)
call_get_smb_insecure_guest_auth ==
    \E k1 \in QueryModes, k2 \in QueryModes :
        LET p1 == RegQueryProc(reg, gpo_key_path, k1)
            p2 == RegQueryProc(reg, normal_key_path, k2)
            ret == get_smb_insecure_guest_auth(p1, p2)
            second == GetRegistryCommand(normal_key_path) \in
                        {ret.issued[i] : i \in DOMAIN ret.issued}
        IN  /\ commands' = ret.issued
            /\ locals' = [handler |-> "get_smb_insecure_guest_auth",
                          q1 |-> get_registry_value(p1),
                          q2 |-> IF second THEN get_registry_value(p2) ELSE NoResult,
                          ret |-> ret]
            /\ UNCHANGED <<ui, reg, net>>

\* set_smb_insecure_guest_auth(enabled) is called; the two reg add commands go
\* as m1 and m2
call_set_smb_insecure_guest_auth ==
    \E flag \in BOOLEAN, m1 \in AddModes, m2 \in AddModes :
        LET ret == set_smb_insecure_guest_auth(flag, RegAddProc(m1), RegAddProc(m2))
        IN  /\ reg' = RegAfterSet(reg, flag, m1, m2)
            /\ commands' = ret.issued
            /\ locals' = [handler |-> "set_smb_insecure_guest_auth",
                          enabled |-> flag,
                          r1 |-> set_registry_value(RegAddProc(m1)),
                          r2 |-> set_registry_value(RegAddProc(m2)),
                          ret |-> ret]
            /\ UNCHANGED <<ui, net>>

InitReg ==
    /\ reg \in [KeyPaths -> HostRegValues]
    /\ smb = [s \in Settings |-> FALSE]
    /\ checked = [s \in Settings |-> FALSE]
    /\ enabled = TRUE
    /\ overlay = FALSE
    /\ loading = FALSE
    /\ config_file = <<>>
    /\ status = Status("Ready", "", TRUE)
    /\ appended = <<>>
    /\ commands = <<>>
    /\ locals = [handler |-> "none"]
    /\ writable = TRUE
    /\ NetworkTabIdle
    /\ OtherTabsIdle
    /\ host = "any"

NextReg ==
    \/ call_get_smb_insecure_guest_auth
    \/ call_set_smb_insecure_guest_auth

SpecReg == InitReg /\ [][NextReg]_vars

-----------------------------------------------------------------------------
(* Properties of get_smb_insecure_guest_auth *)

AfterGet == locals.handler = "get_smb_insecure_guest_auth"

Issued(cmd) == \E i \in DOMAIN commands : commands[i] = cmd

HasValueToken(out) == Contains(Token0x1, out) \/ Contains(Token0x0, out)

\* the query's output or error text says "unable to find", in any case
ReportedNotFound(q) ==
    Contains(UnableToFind, Lower(q.stderr)) \/ Contains(UnableToFind, Lower(q.stdout))

\* C8: the policy key has priority. When its query succeeds and the output
\* carries "0x1" or "0x0", the call reports success with that token's Boolean
\* ("0x1" is true), whatever the normal key holds, and the normal key is not
\* queried; the normal key is queried only when the policy key gave no value.
C8_PolicyPriority ==
    AfterGet =>
        /\ (locals.q1.success /\ HasValueToken(locals.q1.stdout)) =>
              /\ locals.ret.success
              /\ locals.ret.value = Contains(Token0x1, locals.q1.stdout)
              /\ locals.ret.error = <<>>
              /\ commands = << GetRegistryCommand(gpo_key_path) >>
        /\ (locals.q1.success /\ reg[gpo_key_path] \in {<<0>>, <<1>>}) =>
              locals.ret.value = (reg[gpo_key_path] = <<1>>)
        /\ Issued(GetRegistryCommand(normal_key_path)) =>
              ~(locals.q1.success /\ HasValueToken(locals.q1.stdout))

\* the policy key holds 1 and the normal key 0, and the call reported true
C8_Witness ==
    /\ AfterGet
    /\ reg[gpo_key_path] = <<1>>
    /\ reg[normal_key_path] = <<0>>
    /\ locals.q1.success
    /\ locals.ret.value
    /\ ~Issued(GetRegistryCommand(normal_key_path))

\* C9: when neither key holds the value and both queries report that, the
\* call returns success = true, value = false and an empty error.
C9_AbsentIsDefault ==
    ( /\ AfterGet
      /\ reg[gpo_key_path] = <<>>
      /\ reg[normal_key_path] = <<>>
      /\ ~locals.q1.success /\ ReportedNotFound(locals.q1)
      /\ ~locals.q2.success /\ ReportedNotFound(locals.q2) )
    => ( /\ locals.ret.success
         /\ ~locals.ret.value
         /\ locals.ret.error = <<>> )

C9_Witness ==
    /\ AfterGet
    /\ reg[gpo_key_path] = <<>>
    /\ reg[normal_key_path] = <<>>
    /\ ~locals.q1.success /\ ReportedNotFound(locals.q1)
    /\ ~locals.q2.success /\ ReportedNotFound(locals.q2)
    /\ Issued(GetRegistryCommand(normal_key_path))
    /\ locals.ret.success

\* C10: the call fails exactly when the policy key gave no value and the
\* normal key's query failed without reporting the value as not found; the
\* error is then that query's stderr as the runner returned it.
C10_FailureExactly ==
    AfterGet =>
        /\ ~locals.ret.success <=>
              ( /\ ~(locals.q1.success /\ HasValueToken(locals.q1.stdout))
                /\ Issued(GetRegistryCommand(normal_key_path))
                /\ ~locals.q2.success
                /\ ~ReportedNotFound(locals.q2) )
        /\ ~locals.ret.success =>
              /\ locals.ret.error = locals.q2.stderr
              /\ ~locals.ret.value

\* the policy key's query found nothing, the normal key's was refused, and the
\* call failed with the refusal as its error
C10_Witness ==
    /\ AfterGet
    /\ ~locals.q1.success
    /\ ~locals.q2.success
    /\ locals.q2.stderr = Strip(AccessDenied)
    /\ ~locals.ret.success
    /\ locals.ret.error = Strip(AccessDenied)

-----------------------------------------------------------------------------
(* Properties of set_smb_insecure_guest_auth *)

AfterSet == locals.handler = "set_smb_insecure_guest_auth"

\* the result's text (stdout or stderr) carries the words t
Names(t, ret) == Contains(t, ret.stdout) \/ Contains(t, ret.stderr)

\* C11: set_smb_insecure_guest_auth returns success exactly when the write to
\* the policy key or the write to the normal key succeeded, and for each write
\* that failed the result's text names that location ("GPO registry failed",
\* "Normal registry failed").
C11_SuccessIffEitherWrite ==
    AfterSet =>
        /\ locals.ret.success <=> (locals.r1.success \/ locals.r2.success)
        /\ ~locals.r1.success => Names(GpoFailed, locals.ret)
        /\ ~locals.r2.success => Names(NormalFailed, locals.ret)

\* the policy write was refused, the normal write went through, and the call
\* reported success
C11_Witness ==
    /\ AfterSet
    /\ ~locals.r1.success
    /\ locals.r2.success
    /\ locals.ret.success
    /\ Names(GpoFailed, locals.ret)

\* C12: every call of set_smb_insecure_guest_auth(enabled) issues exactly two
\* forced reg add commands, the policy key first and the normal key second,
\* both with the data 1 if enabled and 0 otherwise; the second is issued also
\* when the first succeeded and also when it failed.
C12_BothWritesInOrder ==
    AfterSet =>
        LET data == IF locals.enabled THEN "1" ELSE "0"
        IN  commands = << Command("cmd", "reg add /f", gpo_key_path, data),
                          Command("cmd", "reg add /f", normal_key_path, data) >>

\* a call whose policy write succeeded and which still wrote the normal key
C12_Witness ==
    /\ AfterSet
    /\ locals.r1.success
    /\ locals.enabled
    /\ Len(commands) = 2
    /\ commands[2] = Command("cmd", "reg add /f", normal_key_path, "1")
    /\ reg[normal_key_path] = <<1>>

-----------------------------------------------------------------------------
(* The command runners called on their own *)

\* the timeouts the callers pass (30 is the default)
Timeouts == {5, 10, 15, DefaultTimeout, 60}

\* what a process may leave on its standard output or standard error
ProcTexts == {<<>>, <<" ", "\r", "\n">>, PsTrue, AccessDenied}

\* how subprocess.run may end
ProcOutcomes ==
    {Exit(code, out, err) : code \in 0..MaxExitCode, out \in ProcTexts, err \in ProcTexts}
    \cup {TimeoutExpired, FileNotFoundError, OtherError(AccessDenied), OtherError(<<>>)}

\* run_powershell_command(command, timeout) is called and subprocess.run ends as p
call_run_powershell_command ==
    \E p \in ProcOutcomes, timeout \in Timeouts :
        /\ locals' = [handler |-> "run_powershell_command", proc |-> p,
                      timeout |-> timeout, ret |-> run_powershell_command(p, timeout)]
        /\ UNCHANGED <<ui, reg, commands, net>>

\* run_cmd_command(command, timeout) is called and subprocess.run ends as p
call_run_cmd_command ==
    \E p \in ProcOutcomes, timeout \in Timeouts :
        /\ locals' = [handler |-> "run_cmd_command", proc |-> p,
                      timeout |-> timeout, ret |-> run_cmd_command(p, timeout)]
        /\ UNCHANGED <<ui, reg, commands, net>>

InitRun ==
    /\ reg = [k \in KeyPaths |-> <<>>]
    /\ smb = [s \in Settings |-> FALSE]
    /\ checked = [s \in Settings |-> FALSE]
    /\ enabled = TRUE
    /\ overlay = FALSE
    /\ loading = FALSE
    /\ config_file = <<>>
    /\ status = Status("Ready", "", TRUE)
    /\ appended = <<>>
    /\ commands = <<>>
    /\ locals = [handler |-> "none"]
    /\ writable = TRUE
    /\ NetworkTabIdle
    /\ OtherTabsIdle
    /\ host = "any"

NextRun ==
    \/ call_run_powershell_command
    \/ call_run_cmd_command

SpecRun == InitRun /\ [][NextRun]_vars

-----------------------------------------------------------------------------
(* Properties of the command runners *)

AfterRun == locals.handler \in {"run_powershell_command", "run_cmd_command"}

\* s begins with the words t
StartsWith(t, s) == Len(s) >= Len(t) /\ SubSeq(s, 1, Len(t)) = t

\* C13: both runners return a (success, stdout, stderr) triple for every way
\* subprocess.run can end, exceptions included; success is true exactly when
\* the process exited with code 0, and whenever the process did not exit
\* normally stdout is empty and stderr is not.
C13_RunnersAlwaysReturn ==
    AfterRun =>
        /\ DOMAIN locals.ret = {"success", "stdout", "stderr"}
        /\ locals.ret.success \in BOOLEAN
        /\ locals.ret.success <=>
              (locals.proc.kind = "exit" /\ locals.proc.returncode = 0)
        /\ locals.proc.kind # "exit" =>
              /\ locals.ret.stdout = <<>>
              /\ locals.ret.stderr # <<>>

\* the command interpreter could not be started, the exception had no text,
\* and the runner returned a failure with a description
C13_Witness ==
    /\ locals.handler = "run_cmd_command"
    /\ locals.proc = OtherError(<<>>)
    /\ ~locals.ret.success
    /\ locals.ret.stderr = ErrorExecuting

\* C14: on either channel a command that outlives its timeout gives
\* success=false, an empty stdout and the message "Command timed out after
\* <timeout> seconds" with the timeout the call was given, and the call returns.
C14_TimeoutResult ==
    (AfterRun /\ locals.proc.kind = "timeout") =>
        /\ ~locals.ret.success
        /\ locals.ret.stdout = <<>>
        /\ locals.ret.stderr = TimedOutAfter \o Dec(locals.timeout) \o Seconds

\* a PowerShell command given 60 seconds timed out
C14_Witness ==
    /\ locals.handler = "run_powershell_command"
    /\ locals.proc.kind = "timeout"
    /\ locals.timeout = 60
    /\ ~locals.ret.success
    /\ Contains(<<"6", "0">>, locals.ret.stderr)

\* the words of a "not found" message
NotFoundWords == <<"n", "o", "t", " ", "f", "o", "u", "n", "d">>

\* C15: on either channel, when the interpreter is missing from the system the
\* runner returns success=false with a "not found" message as stderr, which is
\* not the generic "Error executing command: ..." description.
C15_MissingInterpreter ==
    (AfterRun /\ locals.proc.kind = "missing") =>
        /\ ~locals.ret.success
        /\ Contains(NotFoundWords, Lower(locals.ret.stderr))
        /\ ~StartsWith(ErrorExecuting, locals.ret.stderr)

-----------------------------------------------------------------------------
(* The SMB tab and its settings file, whatever the file has become *)

\* what the running program may find at config/smb_settings.json: nothing, the
\* settings of an earlier session, or a file that something else has damaged
PrefsFiles == {<<>>, SettingsFile(TRUE, TRUE, TRUE), TextFile, BytesFile, LockedFile}

\* the tab is up on a host with every setting off; the file is any of
\* PrefsFiles, or the settings of an earlier session in a file that has been
\* made read-only
InitPrefs ==
    /\ smb = [s \in Settings |-> FALSE]
    /\ reg = [k \in KeyPaths |-> <<>>]
    /\ checked = LoadedToggles(smb, [s \in Settings |-> "run"], Loaded("", <<>>))
    /\ enabled = TRUE
    /\ overlay = FALSE
    /\ loading = FALSE
    /\ writable \in BOOLEAN
    /\ config_file \in IF writable THEN PrefsFiles ELSE {SettingsFile(TRUE, TRUE, TRUE)}
    /\ status = Status("Configuration loaded", "", TRUE)
    /\ appended = LoadedLines(smb, [s \in Settings |-> "run"])
    /\ commands = <<>>
    /\ locals = [handler |-> "none"]
    /\ NetworkTabIdle
    /\ OtherTabsIdle
    /\ host = "any"

SpecPrefs == InitPrefs /\ [][Next]_vars

-----------------------------------------------------------------------------
(* Properties of the settings file *)

\* load_current_config ran to its end
AfterLoad == locals.handler = "load_current_config" /\ locals.raised = ""

\* the last handler was an apply operation that ended APPLIED, the read-back
\* (of the cmdlet or of the registry) giving the desired value
VerifiedApplied ==
    /\ AfterApply
    /\ Applied
    /\ IF AfterGuest
       THEN \/ locals.verify_success /\ locals.actual_value = locals.checked
            \/ locals.reg_verify_success /\ locals.reg_actual_value = locals.checked
       ELSE locals.verify_success /\ locals.actual_value = locals.checked

\* the file holding the three values the toggles show
FileOfToggles(c) == SettingsFile(c["guest"], c["client_sig"], c["server_sig"])

\* C16 as claimed: at the end of every apply operation that ends APPLIED with
\* a matching read-back, and at the end of every load_current_config, the
\* preferences file holds the three values the toggles show.
C16_FileWritten ==
    (VerifiedApplied \/ AfterLoad) => config_file = FileOfToggles(checked)

\* C16, amended: every such operation ends with a write of the three values
\* the toggles show, which replaces the file when the file can be written and
\* leaves it as it was when it cannot (the IOError is caught and the
\* operation ends as it would have).
C16_FileWrittenIfWritable ==
    [][ (VerifiedApplied' \/ AfterLoad') =>
            config_file' = IF writable THEN FileOfToggles(checked') ELSE config_file ]_vars

\* a verified change on a host where the file cannot be written: the file
\* does not hold what the toggles show
C16_Witness ==
    /\ VerifiedApplied
    /\ ~writable
    /\ config_file # FileOfToggles(checked)
    /\ checked # [s \in Settings |-> FALSE]

C18_LoadNeverFails ==
    locals.handler = "load_current_config" =>
        /\ locals.raised = ""
        /\ (locals.found = <<>> \/ locals.found[1].kind # "json") =>
              locals.saved_settings = <<>>
        /\ status.message = "Configuration loaded"
        /\ enabled /\ ~loading

-----------------------------------------------------------------------------
(* ui/network_tab.py: the adapters of the host and Get-NetAdapter *)

\* the adapters a host may have, by a short id, with what Get-NetAdapter
\* reports of each
AdapterIds == {"eth", "wifi", "usb"}
AdapterInfo ==
    [id \in AdapterIds |->
        CASE id = "eth" ->
                [Name |-> "Ethernet", InterfaceDescription |-> "Intel(R) Ethernet Connection I219-V",
                 Status |-> "Up", MacAddress |-> "00-1A-2B-3C-4D-5E"]
          [] id = "wifi" ->
                [Name |-> "Wi-Fi", InterfaceDescription |-> "MediaTek Wi-Fi 6 Wireless LAN Card",
                 Status |-> "Disconnected", MacAddress |-> "00-1A-2B-3C-4D-5F"]
          [] id = "usb" ->
                [Name |-> "Ethernet 2", InterfaceDescription |-> "Realtek USB GbE Family Controller",
                 Status |-> "Up", MacAddress |-> "00-1A-2B-3C-4D-60"]]

\* the Where-Object filter of the first query: the adapters whose description
\* or device id has one of its words (PCI, Ethernet, Realtek, Intel, ...)
MatchesFilter(id) == id \in {"eth", "usb"}

\* the adapters of a host, in the order Get-NetAdapter lists them
HostAdapters ==
    { <<>>, <<"eth">>, <<"wifi">>, <<"eth", "wifi">>, <<"wifi", "usb">>,
      <<"eth", "wifi", "usb">> }

\* one JSON object of ConvertTo-Json's output, written as a single symbol: the
\* adapter's properties, MacAddress among them only when it was selected
ObjToken(id, with_mac) == IF with_mac THEN "{" \o id \o ",mac}" ELSE "{" \o id \o "}"
ObjTokens == { ObjToken(id, m) : id \in AdapterIds, m \in BOOLEAN }

RECURSIVE JsonElements(_, _)
\* the objects of a JSON array, comma-separated
JsonElements(ids, with_mac) ==
    IF ids = <<>> THEN <<>>
    ELSE IF Len(ids) = 1 THEN << ObjToken(ids[1], with_mac) >>
    ELSE << ObjToken(ids[1], with_mac), "," >> \o JsonElements(Tail(ids), with_mac)

\* ... | ConvertTo-Json: nothing for no object, the object for one, an array
\* for more, ended by a line break
ConvertToJson(ids, with_mac) ==
    IF ids = <<>> THEN <<>>
    ELSE IF Len(ids) = 1 THEN << ObjToken(ids[1], with_mac), "\r", "\n" >>
    ELSE << "[" >> \o JsonElements(ids, with_mac) \o << "]", "\r", "\n" >>

RECURSIVE Filtered(_)
\* the adapters that pass the Where-Object filter, in order
Filtered(ids) ==
    IF ids = <<>> THEN <<>>
    ELSE (IF MatchesFilter(ids[1]) THEN << ids[1] >> ELSE <<>>) \o Filtered(Tail(ids))

\* a query runs, fails (the cmdlet is refused), or runs with a warning written
\* ahead of its output
AdapterQueryModes == {"run", "failed", "garbled"}

\* the process of the filtered query (lines 283-295) on a host with adapters ids
FilteredQueryProc(ids, mode) ==
    CASE mode = "run" -> Exit(0, ConvertToJson(Filtered(ids), TRUE), <<>>)
      [] mode = "garbled" -> Exit(0, << "W", "A", "R", "N", "\n" >>
                                       \o ConvertToJson(Filtered(ids), TRUE), <<>>)
      [] OTHER -> Exit(1, <<>>, AccessDenied)

\* the process of the unfiltered query (line 337)
UnfilteredQueryProc(ids, mode) ==
    CASE mode = "run" -> Exit(0, ConvertToJson(ids, FALSE), <<>>)
      [] mode = "garbled" -> Exit(0, << "W", "A", "R", "N", "\n" >>
                                       \o ConvertToJson(ids, FALSE), <<>>)
      [] OTHER -> Exit(1, <<>>, AccessDenied)

-----------------------------------------------------------------------------
(* ui/network_tab.py: NetworkTab.refresh_network_adapters *)

\* what json.loads comes to: a dict (one object) or a list of objects, as the
\* sequence of its objects, or JSONDecodeError
JsonValue(raised, is_dict, items) == [raised |-> raised, is_dict |-> is_dict, items |-> items]

RECURSIVE JsonItems(_)
\* the objects of "obj , obj , ... obj", or <<"error">> where the text is not that
JsonItems(e) ==
    IF e = <<>> THEN <<>>
    ELSE IF e[1] \notin ObjTokens THEN << "error" >>
    ELSE IF Len(e) = 1 THEN << e[1] >>
    ELSE IF e[2] # "," \/ Len(e) = 2 THEN << "error" >>
    ELSE LET rest == JsonItems(SubSeq(e, 3, Len(e)))
         IN  IF rest # <<>> /\ rest[1] = "error" THEN << "error" >> ELSE << e[1] >> \o rest

\* json.loads(stdout)
json_loads(text) ==
    IF Len(text) = 1 /\ text[1] \in ObjTokens
    THEN JsonValue(FALSE, TRUE, text)
    ELSE IF Len(text) >= 2 /\ text[1] = "[" /\ text[Len(text)] = "]"
    THEN LET items == JsonItems(SubSeq(text, 2, Len(text) - 1))
         IN  IF items # <<>> /\ items[1] = "error"
             THEN JsonValue(TRUE, FALSE, <<>>)
             ELSE JsonValue(FALSE, FALSE, items)
    ELSE JsonValue(TRUE, FALSE, <<>>)

\* adapter.get(key, ''): the object's property, '' when it has none of that name
Get(obj, key) ==
    LET o == CHOOSE x \in [id : AdapterIds, mac : BOOLEAN] : ObjToken(x.id, x.mac) = obj
    IN  IF key = "MacAddress" /\ ~o.mac THEN "" ELSE AdapterInfo[o.id][key]

\* f"{status_icon} {name} - {desc}", the two icons written as words
DisplayName(obj) ==
    (IF Get(obj, "Status") = "Up" THEN "green" ELSE "red")
        \o " " \o Get(obj, "Name") \o " - " \o Get(obj, "InterfaceDescription")

\* the value stored under the display name; the fallback stores '' as mac
AdapterEntry(obj, use_mac) ==
    [name |-> Get(obj, "Name"), description |-> Get(obj, "InterfaceDescription"),
     status |-> Get(obj, "Status"),
     mac |-> IF use_mac THEN Get(obj, "MacAddress") ELSE ""]

\* d[k] = v
DictSet(d, k, v) == {p \in d : p[1] # k} \cup {<<k, v>>}

RECURSIVE AddToDict(_, _, _)
\* the loop's effect on network_adapters
AddToDict(d, items, use_mac) ==
    IF items = <<>> THEN d
    ELSE AddToDict(DictSet(d, DisplayName(items[1]), AdapterEntry(items[1], use_mac)),
                   Tail(items), use_mac)

RECURSIVE AddToCombo(_, _)
\* the loop's effect on adapter_combo: one addItem per adapter
AddToCombo(combo, items) ==
    IF items = <<>> THEN combo
    ELSE AddToCombo(Append(combo, DisplayName(items[1])), Tail(items))

\* on_adapter_changed, run by the addItem that fills an empty combo box
SelectedLines(combo, items) ==
    IF combo = <<>> /\ items # <<>>
    THEN << Line("Selected adapter: ", Get(items[1], "Name"), <<>>) >>
    ELSE <<>>

\* a faulty variant of FallbackNeeded: output that cannot be decoded is not a reason
FallbackNeeded_OnlyWhenEmpty(q) == ~(q.success /\ Strip(q.stdout) # <<>>)

\* lines 297-333: the filtered query failed, gave nothing, or gave what
\* json.loads cannot decode
FallbackNeeded(q) ==
    \/ ~(q.success /\ Strip(q.stdout) # <<>>)
    \/ json_loads(q.stdout).raised

\* refresh_network_adapters after processEvents() (lines 283-333, and
\* _get_all_adapters_fallback where it is called), the two queries going as m1
\* and m2 on a host with adapters ids
Refreshed(dict, combo, ids, m1, m2) ==
    LET q1 == run_powershell_command(FilteredQueryProc(ids, m1), DefaultTimeout)
        q2 == run_powershell_command(UnfilteredQueryProc(ids, m2), DefaultTimeout)
        usable1 == q1.success /\ Strip(q1.stdout) # <<>>
        data1 == json_loads(q1.stdout)
        fallback == FallbackNeeded(q1)
        usable2 == q2.success /\ Strip(q2.stdout) # <<>>
        data2 == json_loads(q2.stdout)
        source == IF usable1 /\ ~data1.raised THEN "filtered"
                  ELSE IF fallback /\ usable2 /\ ~data2.raised THEN "fallback"
                  ELSE "none"
        items == CASE source = "filtered" -> data1.items
                   [] source = "fallback" -> data2.items
                   [] OTHER -> <<>>
        count == ToString(Len(items))
    IN  [network_adapters |-> AddToDict(dict, items, source = "filtered"),
         adapter_combo |-> AddToCombo(combo, items),
         net_status |->
            IF source = "filtered" THEN Status("Found network adapter(s)", count, TRUE)
            ELSE IF usable1 THEN Status("Error parsing adapter data", "", FALSE)
            ELSE Status("No PCIe adapters found, loading all adapters", "", TRUE),
         net_appended |->
            (IF usable1 /\ data1.raised
             THEN << Line("Error parsing adapter data: ", "", <<>>) >> ELSE <<>>)
            \o SelectedLines(combo, items)
            \o (CASE source = "filtered" ->
                        << Line("Detected PCIe/Ethernet network adapter(s)", count, <<>>) >>
                  [] source = "fallback" ->
                        << Line("Loaded network adapter(s) (fallback)", count, <<>>) >>
                  [] fallback /\ usable2 ->
                        << Line("Error in fallback adapter detection: ", "", <<>>) >>
                  [] OTHER -> <<>>),
         locals |->
            [handler |-> "refresh_network_adapters",
             m1 |-> m1, m2 |-> IF fallback THEN m2 ELSE "",
             q1 |-> q1, fallback |-> fallback,
             q2 |-> IF fallback THEN q2 ELSE NoResult,
             source |-> source, populated |-> items]]

\* the commands a refresh issued
RefreshCommands(fallback) ==
    << Command("powershell", "Get-NetAdapter | Where-Object | Select-Object | ConvertTo-Json",
               "", "") >>
    \o (IF fallback
        THEN << Command("powershell", "Get-NetAdapter | Select-Object | ConvertTo-Json", "", "") >>
        ELSE <<>>)

\* the user clicks the adapters' Refresh button; the click waits in the event
\* queue until the event loop, or a processEvents() call, takes it
click_refresh_adapters ==
    /\ pending_clicks < MaxPendingClicks
    /\ pending_clicks' = pending_clicks + 1
    /\ UNCHANGED <<ui, reg, commands, locals, host_adapters, network_adapters,
                   adapter_combo, net_status, net_appended, refresh_depth>>

\* a waiting click is delivered and refresh_network_adapters runs up to its
\* processEvents() (lines 275-281); the click is taken by the event loop, or by
\* the processEvents() of a call that is already on the stack
refresh_network_adapters ==
    /\ pending_clicks > 0
    /\ refresh_depth < MaxRefreshDepth
    /\ pending_clicks' = pending_clicks - 1
    /\ refresh_depth' = refresh_depth + 1
    /\ adapter_combo' = <<>>
    /\ network_adapters' = {}
    /\ net_status' = Status("Detecting network adapters...", "", TRUE)
    /\ commands' = <<>>
    /\ locals' = [handler |-> "processEvents"]
    /\ UNCHANGED <<ui, reg, host_adapters, net_appended>>

\* processEvents() returns to the innermost call of refresh_network_adapters,
\* which runs to its end (lines 283-333)
refresh_network_adapters_after_processEvents ==
    /\ refresh_depth > 0
    /\ refresh_depth' = refresh_depth - 1
    /\ \E r \in { Refreshed(network_adapters, adapter_combo, host_adapters, m1, m2) :
                    m1 \in AdapterQueryModes, m2 \in AdapterQueryModes } :
        /\ network_adapters' = r.network_adapters
        /\ adapter_combo' = r.adapter_combo
        /\ net_status' = r.net_status
        /\ net_appended' = r.net_appended
        /\ locals' = r.locals
        /\ commands' = RefreshCommands(r.locals.fallback)
    /\ UNCHANGED <<ui, reg, host_adapters, pending_clicks>>

\* NetworkTab.__init__ has run refresh_network_adapters once, with no event
\* waiting, on a host with any of HostAdapters where both queries ran
InitNet ==
    /\ host_adapters \in HostAdapters
    /\ \E r \in { Refreshed({}, <<>>, host_adapters, "run", "run") } :
        /\ network_adapters = r.network_adapters
        /\ adapter_combo = r.adapter_combo
        /\ net_status = r.net_status
        /\ net_appended = r.net_appended
        /\ locals = r.locals
        /\ commands = RefreshCommands(r.locals.fallback)
    /\ pending_clicks = 0
    /\ refresh_depth = 0
    /\ reg = [k \in KeyPaths |-> <<>>]
    /\ smb = [s \in Settings |-> FALSE]
    /\ checked = [s \in Settings |-> FALSE]
    /\ enabled = TRUE
    /\ overlay = FALSE
    /\ loading = FALSE
    /\ config_file = <<>>
    /\ writable = TRUE
    /\ status = Status("Ready", "", TRUE)
    /\ appended = <<>>
    /\ OtherTabsIdle
    /\ host = "any"

NextNet ==
    \/ click_refresh_adapters
    \/ refresh_network_adapters
    \/ refresh_network_adapters_after_processEvents

SpecNet == InitNet /\ [][NextNet]_vars

-----------------------------------------------------------------------------
(* Properties of the adapter list *)

\* a call of refresh_network_adapters has just returned
AfterRefresh == locals.handler = "refresh_network_adapters"

\* the adapter of this JSON object is in the selection list and in the map
Listed(obj) ==
    /\ \E i \in DOMAIN adapter_combo : adapter_combo[i] = DisplayName(obj)
    /\ \E p \in network_adapters : p[1] = DisplayName(obj)

\* C19: a refresh runs the unfiltered query exactly when the filtered query
\* failed, returned empty output, or returned output json.loads cannot decode;
\* and when the unfiltered query's output decodes, every adapter in it is in
\* the selection list and in the map afterwards (every adapter of the host,
\* when that query ran undisturbed).
C19_FallbackPopulates ==
    AfterRefresh =>
        /\ locals.fallback <=>
              \/ ~locals.q1.success
              \/ locals.q1.stdout = <<>>
              \/ json_loads(locals.q1.stdout).raised
        /\ Len(commands) = IF locals.fallback THEN 2 ELSE 1
        /\ (locals.fallback /\ locals.q2.success /\ ~json_loads(locals.q2.stdout).raised) =>
              \A i \in DOMAIN json_loads(locals.q2.stdout).items :
                  Listed(json_loads(locals.q2.stdout).items[i])
        /\ (locals.fallback /\ locals.m2 = "run") =>
              \A i \in DOMAIN host_adapters : Listed(ObjToken(host_adapters[i], FALSE))

\* the filtered query's output could not be decoded, and the list holds the
\* host's two adapters from the unfiltered query
C19_Witness ==
    /\ AfterRefresh
    /\ host_adapters = <<"wifi", "usb">>
    /\ locals.m1 = "garbled"
    /\ locals.q1.success
    /\ locals.fallback
    /\ locals.source = "fallback"
    /\ adapter_combo = << DisplayName(ObjToken("wifi", FALSE)),
                          DisplayName(ObjToken("usb", FALSE)) >>

\* C20 as claimed: when a call of refresh_network_adapters returns, the
\* selection list holds exactly the adapters of the query that populated it in
\* this call, once each and in order, and the map holds exactly their entries,
\* also when another refresh ran inside this one's processEvents().
C20_ListFullyReplaced ==
    AfterRefresh =>
        /\ adapter_combo = AddToCombo(<<>>, locals.populated)
        /\ network_adapters = AddToDict({}, locals.populated, locals.source = "filtered")

\* ---------------------------------------------------------------------
\* Guest-logon success, failed applies, and how every apply ends
\* ---------------------------------------------------------------------

SetCommands == {i \in DOMAIN commands : commands[i].verb = "Set"}

\* C23: a guest-logon apply reports success only if a read-back made by the
\* same call, the primary get or the registry read, succeeded and returned
\* the requested value, and the command of that read-back was issued
C23_SuccessNeedsReadBack ==
    (AfterGuest /\ Applied) =>
        \/ /\ locals.verify_success
           /\ locals.actual_value = locals.checked
           /\ \E i \in DOMAIN commands : commands[i] = SmbGetCommand("guest")
        \/ /\ locals.reg_verify_success
           /\ locals.reg_actual_value = locals.checked
           /\ RegistryRead

\* the set command reported success, the primary get failed, and the
\* registry read gave the requested value
C23_Witness ==
    /\ AfterGuest /\ Applied
    /\ locals.success /\ ~locals.verify_success
    /\ locals.reg_success /\ locals.reg_verify_success
    /\ locals.reg_actual_value = locals.checked
    /\ locals.checked

\* C25: an apply that ends FAILED, for any of the three settings, leaves the
\* preferences file as it was
C25_FailedKeepsFile ==
    [][(AfterApply' /\ Failed') => config_file' = config_file]_vars

\* a signature apply failed and was reverted while a preferences file with
\* the setting on is in place
C25_Witness ==
    /\ AfterSig /\ Failed
    /\ locals.checked = FALSE /\ checked[Applying]
    /\ config_file = SettingsFile(checked["guest"], checked["client_sig"],
                                   checked["server_sig"])

\* C26: every toggle apply ends with the overlay hidden, the controls
\* enabled and _loading False, on every path
C26_ApplyEndsReleased ==
    AfterApply => (~overlay /\ enabled /\ ~loading)

\* a guest apply failed by both methods and was reverted
C26_Witness ==
    /\ AfterGuest /\ Failed /\ ~locals.reg_success
    /\ checked["guest"] = ~locals.checked
    /\ ~overlay /\ enabled

\* C27: a toggle changed by the program, the revert of a failed apply or the
\* value a reload puts in, starts no apply handler: an apply issues exactly
\* one set command, its own, and a reload issues none
C27_SetCheckedStartsNothing ==
    /\ AfterApply => Cardinality(SetCommands) = 1
    /\ locals.handler = "load_current_config" => SetCommands = {}

\* a signature apply was reverted to the value read back
C27_Witness ==
    /\ AfterSig /\ Failed
    /\ locals.success /\ locals.verify_success
    /\ checked[Applying] # locals.checked
    /\ Cardinality(SetCommands) = 1

-----------------------------------------------------------------------------
(* The Firewall tab *)

\* the SMB tab on a host with every setting off and no stored value, before
\* any preferences file is written
SMBTabAtRest ==
    /\ reg = [k \in KeyPaths |-> <<>>]
    /\ smb = [s \in Settings |-> FALSE]
    /\ checked = [s \in Settings |-> FALSE]
    /\ enabled = TRUE
    /\ overlay = FALSE
    /\ loading = FALSE
    /\ config_file = <<>>
    /\ writable = TRUE
    /\ status = Status("Ready", "", TRUE)
    /\ appended = <<>>

\* the button of a QMessageBox the user closes it with
Replies == {"Yes", "No"}

\* a faulty variant of Confirmed: the answer is not looked at
Confirmed_Always(reply) == TRUE

\* reply == QMessageBox.Yes (lines 198 and 224)
Confirmed(reply) == reply = "Yes"

\* how a Set-NetFirewallProfile command goes: it changes the profiles, is
\* refused, or fails without a message
FwModes == {"ok", "denied", "silent"}

FwSetProc(mode) ==
    CASE mode = "ok" -> Exit(0, <<>>, <<>>)
      [] mode = "denied" -> Exit(1, <<>>, AccessDenied)
      [] OTHER -> Exit(1, <<>>, <<>>)

FwAfterSet(prof, targets, value, mode) ==
    IF mode = "ok"
    THEN [p \in FirewallProfiles |-> IF p \in targets THEN value ELSE prof[p]]
    ELSE prof

\* f"Set-NetFirewallProfile -Profile {profile} -Enabled {state}"
FwSetCommand(profile, state) ==
    Command("powershell", "Set-NetFirewallProfile", profile, state)

\* stderr if stderr else 'Unknown error'
FwError(stderr) ==
    Line("Error: ", "", IF stderr # <<>> THEN stderr ELSE UnknownError)

FwLocals(handler, profile, enable, reply, r) ==
    [handler |-> handler, profile |-> profile, enable |-> enable,
     reply |-> reply, success |-> r.success, stderr |-> r.stderr]

\* FirewallTab.enable_all_firewall
enable_all_firewall ==
    \E mode \in FwModes :
      LET r == run_powershell_command(FwSetProc(mode), DefaultTimeout)
      IN  /\ profiles' = FwAfterSet(profiles, FirewallProfiles, TRUE, mode)
          /\ commands' = << FwSetCommand("Domain,Public,Private", "True") >>
          /\ locals' = FwLocals("enable_all_firewall", "", TRUE, "", r)
          /\ IF r.success
             THEN /\ fw_status' = Status("All Firewall Profiles: ENABLED", "", TRUE)
                  /\ fw_output' = << Line("All firewall profiles enabled successfully",
                                          "", <<>>) >>
             ELSE /\ fw_status' = Status("Failed to enable firewall profiles", "", FALSE)
                  /\ fw_output' = << FwError(r.stderr) >>
          /\ UNCHANGED <<checked, enabled, overlay, loading, config_file, status,
                         appended, smb, writable, ops, reg, net, host>>

\* FirewallTab.disable_all_firewall: the warning is answered, and the command
\* is run if the answer is Yes
disable_all_firewall ==
    \E reply \in Replies :
      /\ IF Confirmed(reply)
         THEN \E mode \in FwModes :
           LET r == run_powershell_command(FwSetProc(mode), DefaultTimeout)
           IN  /\ profiles' = FwAfterSet(profiles, FirewallProfiles, FALSE, mode)
               /\ commands' = << FwSetCommand("Domain,Public,Private", "False") >>
               /\ locals' = FwLocals("disable_all_firewall", "", FALSE, reply, r)
               /\ IF r.success
                  THEN /\ fw_status' = Status("All Firewall Profiles: DISABLED", "", TRUE)
                       /\ fw_output' = << Line("All firewall profiles disabled", "", <<>>) >>
                  ELSE /\ fw_status' = Status("Failed to disable firewall profiles",
                                              "", FALSE)
                       /\ fw_output' = << FwError(r.stderr) >>
         ELSE /\ profiles' = profiles
              /\ commands' = <<>>
              /\ locals' = FwLocals("disable_all_firewall", "", FALSE, reply, NoResult)
              /\ fw_status' = Status("Operation cancelled", "", TRUE)
              /\ fw_output' = << Line("Firewall disable operation cancelled by user",
                                      "", <<>>) >>
      /\ UNCHANGED <<checked, enabled, overlay, loading, config_file, status,
                     appended, smb, writable, ops, reg, net, host>>

\* the profiles that have a pair of buttons (lines 86-102)
ProfileButtons == {"Private", "Public"}

\* FirewallTab.toggle_profile(profile, enable): disabling asks first
toggle_profile ==
    \E profile \in ProfileButtons, enable \in BOOLEAN,
       reply \in Replies :
      /\ (enable => reply = "Yes")    \* no dialog is shown when enabling
      /\ IF ~enable /\ ~Confirmed(reply)
         THEN /\ profiles' = profiles
              /\ commands' = <<>>
              /\ locals' = FwLocals("toggle_profile", profile, enable, reply, NoResult)
              /\ fw_status' = Status("Operation cancelled", "", TRUE)
              /\ fw_output' = << Line(" profile disable cancelled by user", profile, <<>>) >>
         ELSE \E mode \in FwModes :
           LET r == run_powershell_command(FwSetProc(mode), DefaultTimeout)
               state == IF enable THEN "True" ELSE "False"
               word == IF enable THEN "ENABLED" ELSE "DISABLED"
               action == IF enable THEN "enable" ELSE "disable"
           IN  /\ profiles' = FwAfterSet(profiles, {profile}, enable, mode)
               /\ commands' = << FwSetCommand(profile, state) >>
               /\ locals' = FwLocals("toggle_profile", profile, enable,
                                     IF enable THEN "" ELSE reply, r)
               /\ IF r.success
                  THEN /\ fw_status' = Status(" Profile: " \o word, profile, TRUE)
                       /\ fw_output' = << Line(" firewall profile " \o action
                                                 \o "d successfully", profile, <<>>) >>
                  ELSE /\ fw_status' = Status("Failed to " \o action \o " profile",
                                              profile, FALSE)
                       /\ fw_output' = << FwError(r.stderr) >>
      /\ UNCHANGED <<checked, enabled, overlay, loading, config_file, status,
                     appended, smb, writable, ops, reg, net, host>>

InitFw ==
    /\ SMBTabAtRest
    /\ NetworkTabIdle
    /\ OtherTabsIdle
    /\ host = "any"
    /\ commands = <<>>
    /\ locals = [handler |-> "none"]

NextFw ==
    \/ enable_all_firewall
    \/ disable_all_firewall
    \/ toggle_profile

SpecFw == InitFw /\ [][NextFw]_vars

AfterDisableRequest ==
    \/ locals.handler = "disable_all_firewall"
    \/ locals.handler = "toggle_profile" /\ ~locals.enable

\* a command that disables a firewall profile was issued
DisablingIssued ==
    \E i \in DOMAIN commands :
        commands[i].verb = "Set-NetFirewallProfile" /\ commands[i].value = "False"

\* C29: a command that disables a firewall profile is issued only by a
\* request whose warning the user answered with Yes, and a request the user
\* declined issues no command at all
C29_DisableNeedsYes ==
    /\ DisablingIssued => (AfterDisableRequest /\ locals.reply = "Yes")
    /\ (AfterDisableRequest /\ locals.reply # "Yes") => commands = <<>>

\* the Public profile was switched off after the user answered Yes
C29_Witness ==
    /\ locals.handler = "toggle_profile" /\ locals.profile = "Public"
    /\ locals.reply = "Yes" /\ locals.success
    /\ DisablingIssued
    /\ ~profiles["Public"] /\ profiles["Private"]

-----------------------------------------------------------------------------
(* The Network tab: apply_ip_configuration *)

Digits == {"0", "1", "2", "3", "4", "5", "6", "7", "8", "9"}

RECURSIVE Split(_, _)
\* s.split(sep) for a one-character sep
Split(s, sep) ==
    IF \A i \in DOMAIN s : s[i] # sep THEN << s >>
    ELSE LET i == CHOOSE j \in DOMAIN s :
                      s[j] = sep /\ \A h \in 1..(j - 1) : s[h] # sep
         IN  << SubSeq(s, 1, i - 1) >> \o Split(SubSeq(s, i + 1, Len(s)), sep)

\* the value of one decimal digit
DigitValue(c) == CHOOSE n \in 0..9 : HexDigit[n + 1] = c

RECURSIVE int(_)
\* int(part) for a string of decimal digits
int(part) ==
    IF part = <<>> THEN 0
    ELSE 10 * int(SubSeq(part, 1, Len(part) - 1)) + DigitValue(part[Len(part)])

\* \d{1,3}
IsDigits1To3(f) == Len(f) \in 1..3 /\ \A i \in DOMAIN f : f[i] \in Digits

\* re.match(r'^(\d{1,3}\.){3}\d{1,3}$', ip_str): $ also matches before a
\* newline that ends the string
MatchesPattern(ip_str) ==
    LET body == IF ip_str # <<>> /\ ip_str[Len(ip_str)] = "\n"
                THEN SubSeq(ip_str, 1, Len(ip_str) - 1) ELSE ip_str
        fields == Split(body, ".")
    IN  Len(fields) = 4 /\ \A i \in 1..4 : IsDigits1To3(fields[i])

\* a faulty variant of _validate_ip: the range of the four numbers is not tested
_validate_ip_PatternOnly(ip_str) == MatchesPattern(ip_str)

\* NetworkTab._validate_ip; int() ignores the white space around a number
_validate_ip(ip_str) ==
    /\ MatchesPattern(ip_str)
    /\ LET parts == Split(ip_str, ".")
       IN  \A i \in DOMAIN parts : int(Strip(parts[i])) \in 0..255

RECURSIVE BitCount(_)
\* bin(n).lstrip('0b').zfill(8).count('1')
BitCount(n) == IF n = 0 THEN 0 ELSE (n % 2) + BitCount(n \div 2)

\* NetworkTab._subnet_to_prefix for a mask that passed _validate_ip
_subnet_to_prefix(subnet_mask) ==
    LET parts == Split(subnet_mask, ".")
    IN  IF Len(parts) # 4 THEN 24
        ELSE BitCount(int(parts[1])) + BitCount(int(parts[2]))
             + BitCount(int(parts[3])) + BitCount(int(parts[4]))

\* "255.255.255.0"
DefaultMask == <<"2","5","5",".","2","5","5",".","2","5","5",".","0">>

\* what the user may have typed into ip_address_input: nothing, an address
\* after a blank, a number above 255, a letter
IpInputs == { <<>>, <<" ","1","0",".","0",".","0",".","5">>, <<"2","5","6",".","0",".","0",".","5">>, <<"1","0",".","0",".","0",".","x">> }

\* subnet_mask_input: nothing, three numbers
MaskInputs == { <<>>, <<"2","5","5",".","2","5","5",".","0">> }

\* gateway_input: nothing, an address, a number above 255
GatewayInputs == { <<>>, <<"1","0",".","0",".","0",".","1">>, <<"1","0",".","0",".","0",".","9","9","9">> }

\* primary_dns_input and secondary_dns_input: nothing, an address, a name
DnsInputs == { <<>>, <<"8",".","8",".","8",".","8">>, <<"d","n","s","1">> }

\* the texts the handler passes to _validate_ip
Entered ==
    {Strip(t) : t \in IpInputs \cup MaskInputs \cup GatewayInputs \cup DnsInputs}

\* _validate_ip on each of them
Validated == Tabulated([t \in Entered |-> _validate_ip(t)])

\* the text adapter_combo shows: one of its items, or '' when it has none
CurrentTexts(combo) ==
    IF combo = <<>> THEN {""} ELSE {combo[i] : i \in DOMAIN combo}

DictKeys(d) == {p[1] : p \in d}

\* d[k]
DictGet(d, k) == (CHOOSE p \in d : p[1] = k)[2]

\* lines 512-513: not display_name or display_name not in self.network_adapters
NoAdapterSelected(display_name, dict) ==
    display_name = "" \/ display_name \notin DictKeys(dict)

\* lines 577-602: the text of the validation warning, '' when every field passes
ValidationError(ip_address, subnet_mask, gateway, primary_dns, secondary_dns) ==
    IF ip_address = <<>> THEN "IP Address is required."
    ELSE IF ~Validated[ip_address] THEN "Invalid IP Address format."
    ELSE IF subnet_mask # <<>> /\ ~Validated[subnet_mask]
         THEN "Invalid Subnet Mask format."
    ELSE IF gateway # <<>> /\ ~Validated[gateway] THEN "Invalid Gateway format."
    ELSE IF primary_dns # <<>> /\ ~Validated[primary_dns]
         THEN "Invalid Primary DNS format."
    ELSE IF secondary_dns # <<>> /\ ~Validated[secondary_dns]
         THEN "Invalid Secondary DNS format."
    ELSE ""

\* how a command that changes the adapter goes
IpModes == {"ok", "failed"}

IpProc(mode) ==
    IF mode = "ok" THEN Exit(0, <<>>, <<>>) ELSE Exit(1, <<>>, AccessDenied)

IpCommand(verb, interface_alias, value) ==
    Command("powershell", verb, interface_alias, value)

\* lines 620-630: the commands that take away the adapter's address, its
\* default route and its DHCP setting
RemovalCommands(interface_alias, dhcp) ==
    << IpCommand("Remove-NetIPAddress", interface_alias, "IPv4"),
       IpCommand("Remove-NetRoute", interface_alias, "0.0.0.0/0"),
       IpCommand("Set-NetIPInterface -Dhcp", interface_alias, dhcp) >>

IpLocals(display_name, is_dhcp, ip_address, subnet_mask, gateway, primary_dns,
         secondary_dns, warning, reply) ==
    [handler |-> "apply_ip_configuration", display_name |-> display_name,
     is_dhcp |-> is_dhcp, ip_address |-> ip_address, subnet_mask |-> subnet_mask,
     gateway |-> gateway, primary_dns |-> primary_dns,
     secondary_dns |-> secondary_dns, warning |-> warning, reply |-> reply]

\* lines 520-567: the DHCP branch, after the adapter was found
ApplyDhcp(display_name, interface_alias) ==
    \E reply \in Replies, m_dhcp \in IpModes, m_dns \in IpModes :
      LET set == run_powershell_command(IpProc(m_dhcp), DefaultTimeout)
          dns == run_powershell_command(IpProc(m_dns), DefaultTimeout)
          first == Line("Setting to DHCP mode...", interface_alias, <<>>)
          enable == << IpCommand("Remove-NetIPAddress", interface_alias, "IPv4"),
                       IpCommand("Remove-NetRoute", interface_alias, "0.0.0.0/0"),
                       IpCommand("Set-NetIPInterface -Dhcp", interface_alias, "Enabled") >>
      IN
      /\ locals' = IpLocals(display_name, TRUE, <<>>, <<>>, <<>>, <<>>, <<>>, "", reply)
      /\ IF ~Confirmed(reply)
         THEN /\ commands' = <<>>
              /\ UNCHANGED <<net_status, net_appended>>
         ELSE IF ~set.success
         THEN /\ commands' = enable
              /\ net_status' = Status("Failed to enable DHCP", "", FALSE)
              /\ net_appended' = << first, Line("Error enabling DHCP: ", "", set.stderr) >>
         ELSE /\ commands' = Append(enable,
                     IpCommand("Set-DnsClientServerAddress", interface_alias, "Reset"))
              /\ IF dns.success
                 THEN /\ net_status' = Status("DHCP configuration applied successfully",
                                              "", TRUE)
                      /\ net_appended' = << first,
                            Line("DHCP configuration applied to ", interface_alias, <<>>),
                            Line("  IP address will be obtained automatically", "", <<>>) >>
                 ELSE /\ net_status' = Status("DHCP applied, DNS reset failed", "", FALSE)
                      /\ net_appended' = << first,
                            Line("DHCP enabled but DNS reset failed: ", "", dns.stderr) >>

\* lines 569-680: the static branch, after the adapter was found
ApplyStatic(display_name, interface_alias) ==
    \E ip_input \in IpInputs, mask_input \in MaskInputs, gateway_input \in GatewayInputs,
       primary_input \in DnsInputs, secondary_input \in DnsInputs :
      LET ip_address == Strip(ip_input)
          gateway == Strip(gateway_input)
          primary_dns == Strip(primary_input)
          secondary_dns == Strip(secondary_input)
          warning == ValidationError(ip_address, Strip(mask_input), gateway,
                                     primary_dns, secondary_dns)
          \* lines 586-587: an empty mask becomes 255.255.255.0 once the
          \* address has passed
          subnet_mask == IF Strip(mask_input) = <<>>
                            /\ warning \notin {"IP Address is required.",
                                                "Invalid IP Address format."}
                         THEN DefaultMask ELSE Strip(mask_input)
          prefix_length == _subnet_to_prefix(subnet_mask)
          first == Line("Setting static IP on ", interface_alias, <<>>)
          removal == RemovalCommands(interface_alias, "Disabled")
          new_cmd == IpCommand("New-NetIPAddress", interface_alias,
                               << ip_address, prefix_length, gateway >>)
          set_lines == << Line("  IP Address set: ", "", ip_address \o <<"/">>
                                                        \o Dec(prefix_length)) >>
                       \o (IF gateway # <<>>
                           THEN << Line("  Default Gateway set: ", "", gateway) >>
                           ELSE <<>>)
          last == Line("Static IP configuration applied to ", interface_alias, <<>>)
      IN
      IF warning # ""
      THEN \* a QMessageBox.warning and return; no question is asked
           /\ locals' = IpLocals(display_name, FALSE, ip_address, subnet_mask, gateway,
                                 primary_dns, secondary_dns, warning, "")
           /\ commands' = <<>>
           /\ UNCHANGED <<net_status, net_appended>>
      ELSE
      \E reply \in Replies, m_ip \in IpModes, m_dns \in IpModes :
      LET new == run_powershell_command(IpProc(m_ip), DefaultTimeout)
          dns == run_powershell_command(IpProc(m_dns), DefaultTimeout)
      IN
      /\ locals' = IpLocals(display_name, FALSE, ip_address, subnet_mask, gateway,
                            primary_dns, secondary_dns, "", reply)
      /\ IF ~Confirmed(reply)
         THEN /\ commands' = <<>>
              /\ UNCHANGED <<net_status, net_appended>>
         ELSE IF ~new.success
         THEN /\ commands' = Append(removal, new_cmd)
              /\ net_status' = Status("Failed to set IP address", "", FALSE)
              /\ net_appended' = << first,
                                    Line("Error setting IP address: ", "", new.stderr) >>
         ELSE IF primary_dns = <<>>
         THEN /\ commands' = Append(removal, new_cmd)
              /\ net_status' = Status("Static IP configuration applied successfully",
                                      "", TRUE)
              /\ net_appended' = << first >> \o set_lines \o << last >>
         ELSE /\ commands' = removal \o << new_cmd,
                     IpCommand("Set-DnsClientServerAddress", interface_alias,
                               IF secondary_dns # <<>>
                               THEN << primary_dns, secondary_dns >>
                               ELSE << primary_dns >>) >>
              /\ net_status' = Status("Static IP configuration applied successfully",
                                      "", TRUE)
              /\ net_appended' = << first >> \o set_lines
                    \o << IF dns.success
                          THEN Line("  DNS servers set: ", "",
                                    IF secondary_dns # <<>>
                                    THEN primary_dns \o <<",", " ">> \o secondary_dns
                                    ELSE primary_dns)
                          ELSE Line("  Failed to set DNS: ", "", dns.stderr) >>
                    \o << last >>

\* NetworkTab.apply_ip_configuration
apply_ip_configuration ==
    /\ \E display_name \in CurrentTexts(adapter_combo) :
         IF NoAdapterSelected(display_name, network_adapters)
         THEN /\ locals' = IpLocals(display_name, FALSE, <<>>, <<>>, <<>>, <<>>, <<>>,
                                    "Please select a network adapter.", "")
              /\ commands' = <<>>
              /\ UNCHANGED <<net_status, net_appended>>
         ELSE \/ ApplyDhcp(display_name, DictGet(network_adapters, display_name).name)
              \/ ApplyStatic(display_name, DictGet(network_adapters, display_name).name)
    /\ UNCHANGED <<ui, reg, host_adapters, network_adapters, adapter_combo,
                   pending_clicks, refresh_depth>>

\* the hosts the IP settings are applied on: without an adapter, with one
IpHosts == { <<>>, <<"eth">> }

InitIp == InitNet /\ host_adapters \in IpHosts

NextIp == apply_ip_configuration

SpecIp == InitIp /\ [][NextIp]_vars

AfterStaticApply == locals.handler = "apply_ip_configuration" /\ ~locals.is_dhcp

RECURSIVE value(_)
\* the number a string of decimal digits writes
value(f) ==
    IF Len(f) = 1 THEN DigitValue(f[1])
    ELSE 10 * value(SubSeq(f, 1, Len(f) - 1)) + DigitValue(f[Len(f)])

\* t is four numbers in 0..255, written in decimal digits, with dots between
IsDottedQuad(t) ==
    /\ Cardinality({i \in DOMAIN t : t[i] = "."}) = 3
    /\ LET dots == {0} \cup {i \in DOMAIN t : t[i] = "."} \cup {Len(t) + 1}
       IN  \A a \in dots, b \in dots :
             (a < b /\ \A c \in dots : ~(a < c /\ c < b)) =>
                LET f == SubSeq(t, a + 1, b - 1)
                IN  /\ f # <<>>
                    /\ \A i \in DOMAIN f : f[i] \in Digits
                    /\ value(f) <= 255

\* C30: in static mode no external command is issued when no adapter is
\* selected, the address is empty or not four numbers in 0..255 with dots
\* between, a mask, gateway or DNS entry that is not empty fails the same
\* test, or the user declines the question
C30_InvalidIssuesNothing ==
    (AfterStaticApply
       /\ \/ NoAdapterSelected(locals.display_name, network_adapters)
          \/ ~IsDottedQuad(locals.ip_address)
          \/ \E f \in {locals.subnet_mask, locals.gateway, locals.primary_dns,
                        locals.secondary_dns} : f # <<>> /\ ~IsDottedQuad(f)
          \/ locals.reply # "Yes")
    => commands = <<>>

\* a gateway with a number above 255 was refused, the address being valid
C30_Witness ==
    /\ AfterStaticApply
    /\ IsDottedQuad(locals.ip_address)
    /\ locals.gateway # <<>> /\ ~IsDottedQuad(locals.gateway)
    /\ locals.warning = "Invalid Gateway format."
    /\ commands = <<>>

-----------------------------------------------------------------------------
(* The SMB tab's handlers that return to the event loop before they finish *)

\* handlers suspended in processEvents() at one time
MaxStack == 2

\* a handler suspended in the processEvents() of line pc, with its local
\* variables and the lines it has appended so far
Frame(handler, pc, lcl, said) ==
    [handler |-> handler, pc |-> pc, locals |-> lcl, said |-> said]

Top == stack[Len(stack)]
Popped == SubSeq(stack, 1, Len(stack) - 1)
Resumed(frame) == [stack EXCEPT ![Len(stack)] = frame]

\* the handler on top of the stack is the named one, suspended at line pc
SuspendedAt(handler, pc) ==
    stack # <<>> /\ Top.handler = handler /\ Top.pc = pc

\* how Restart-Service goes on a host of kind h
HostRestartModes(h) ==
    CASE h = "elevated" -> {"ok"}
      [] h = "restricted" -> {"denied"}
      [] OTHER -> {"ok", "denied"}

ResetLocals(reply, reg_success, client_success, server_success) ==
    [handler |-> "reset_to_default", reply |-> reply,
     reg_success |-> reg_success, client_success |-> client_success,
     server_success |-> server_success,
     all_success |-> reg_success /\ client_success /\ server_success,
     load |-> <<>>]

\* reset_to_default, lines 694-715: the question, and for Yes the controls
\* are disabled and the handler calls processEvents()
reset_to_default ==
    /\ enabled
    /\ \E reply \in Replies :
         IF ~Confirmed(reply)
         THEN /\ locals' = ResetLocals(reply, FALSE, FALSE, FALSE)
              /\ commands' = <<>>
              /\ UNCHANGED <<enabled, status, appended, stack>>
         ELSE /\ Len(stack) < MaxStack
              /\ enabled' = FALSE
              /\ status' = Status("Resetting to default settings...", "", TRUE)
              /\ appended' = << Line("Resetting SMB settings to default values...",
                                     "", <<>>) >>
              /\ commands' = <<>>
              /\ locals' = locals
              /\ stack' = Append(stack, Frame("reset_to_default", 715,
                                              ResetLocals(reply, FALSE, FALSE, FALSE),
                                              appended'))
    /\ UNCHANGED <<checked, overlay, loading, config_file, smb, reg, writable,
                   connection_result_text, fw, net, host>>

ResetLine(ok, done, failed, stderr) ==
    IF ok THEN Line(done, "", <<>>) ELSE Line(failed, "", stderr)

\* reset_to_default, lines 716-768: the three writes, the status, the controls
\* enabled again, and processEvents() once more. The calls of lines 721, 733
\* and 744 are made with the controls as line 715 has them.
reset_to_default_716 ==
    /\ SuspendedAt("reset_to_default", 715)
    /\ \E a1 \in HostAddModes(host), a2 \in HostAddModes(host),
          m1 \in HostSetModes(host), m2 \in HostSetModes(host) :
         LET w == GuestAuthWritten[FALSE, a1, a2]
             client == SmbSetResult[m1]
             server == SmbSetResult[m2]
             smb1 == SmbAfterSet(smb, "client_sig", FALSE, m1)
             lcl == ResetLocals(Top.locals.reply, w.success, client.success,
                                server.success)
             said == Top.said
                 \o << Line("  Setting Insecure Guest Logons to DISABLED...", "", <<>>),
                       ResetLine(w.success, "  Insecure Guest Logons set to disabled",
                                 "  Failed to set Insecure Guest Logons: ", w.stderr),
                       Line("  Setting Client Security Signature to NOT REQUIRED...",
                            "", <<>>),
                       ResetLine(client.success,
                                 "  Client Security Signature set to not required",
                                 "  Failed to set Client Security Signature: ",
                                 client.stderr),
                       Line("  Setting Server Security Signature to NOT REQUIRED...",
                            "", <<>>),
                       ResetLine(server.success,
                                 "  Server Security Signature set to not required",
                                 "  Failed to set Server Security Signature: ",
                                 server.stderr),
                       Line("", "", <<>>) >>
                 \o (IF lcl.all_success
                     THEN << Line("All settings have been reset to default values",
                                  "", <<>>),
                             Line("Note: A system restart may be required for all changes to take effect.",
                                  "", <<>>) >>
                     ELSE << Line("Some settings failed to reset - check errors above",
                                  "", <<>>) >>)
                 \o << Line("", "", <<>>), Line("Reloading SMB configuration...", "", <<>>) >>
         IN  /\ reg' = RegAfterSet(reg, FALSE, a1, a2)
             /\ smb' = SmbAfterSet(smb1, "server_sig", FALSE, m2)
             /\ commands' = w.issued \o << SmbSetCommand("client_sig", FALSE),
                                           SmbSetCommand("server_sig", FALSE) >>
             /\ status' = IF lcl.all_success
                          THEN Status("Settings reset to default successfully", "", TRUE)
                          ELSE Status("Some settings failed to reset", "", FALSE)
             /\ appended' = said
             /\ enabled' = TRUE
             /\ stack' = Resumed(Frame("reset_to_default", 768, lcl, said))
    /\ UNCHANGED <<checked, overlay, loading, config_file, locals, writable,
                   connection_result_text, fw, net, host>>

\* reset_to_default, line 769: the reload, after which the handler returns
reset_to_default_769 ==
    /\ SuspendedAt("reset_to_default", 768)
    /\ stack' = Popped
    /\ LoadBody(Top.locals, Top.said)
    /\ UNCHANGED <<writable, connection_result_text, fw, net, host>>

RestartLocals(reply, server_success, client_success) ==
    [handler |-> "restart_smb_service", reply |-> reply,
     server_success |-> server_success, client_success |-> client_success,
     all_success |-> server_success /\ client_success,
     load |-> <<>>]

\* restart_smb_service, lines 771-790
restart_smb_service ==
    /\ enabled
    /\ \E reply \in Replies :
         IF ~Confirmed(reply)
         THEN /\ locals' = RestartLocals(reply, FALSE, FALSE)
              /\ commands' = <<>>
              /\ UNCHANGED <<enabled, status, appended, stack>>
         ELSE /\ Len(stack) < MaxStack
              /\ enabled' = FALSE
              /\ status' = Status("Restarting SMB services...", "", TRUE)
              /\ appended' = << Line("Restarting SMB services...", "", <<>>) >>
              /\ commands' = <<>>
              /\ locals' = locals
              /\ stack' = Append(stack, Frame("restart_smb_service", 790,
                                              RestartLocals(reply, FALSE, FALSE),
                                              appended'))
    /\ UNCHANGED <<checked, overlay, loading, config_file, smb, reg, writable,
                   connection_result_text, fw, net, host>>

RestartProc(mode) ==
    IF mode = "ok" THEN Exit(0, <<>>, <<>>) ELSE Exit(1, <<>>, AccessDenied)

RestartCommand(service) == Command("powershell", "Restart-Service -Force", service, "")

\* the timeout both Restart-Service commands are given (lines 799 and 814)
RestartTimeout == 60

\* restart_smb_service, lines 791-838: the two services are restarted, the
\* controls are enabled again, and processEvents() is called once more. The
\* calls of lines 797, 808 and 812 are made with the controls as line 790
\* has them.
restart_smb_service_791 ==
    /\ SuspendedAt("restart_smb_service", 790)
    /\ \E m1 \in HostRestartModes(host), m2 \in HostRestartModes(host) :
         LET server == run_powershell_command(RestartProc(m1), RestartTimeout)
             client == run_powershell_command(RestartProc(m2), RestartTimeout)
             lcl == RestartLocals(Top.locals.reply, server.success, client.success)
             said == Top.said
                 \o << Line("  Restarting SMB Server (LanmanServer)...", "", <<>>),
                       Line("  Restarting SMB Client (LanmanWorkstation)...", "", <<>>),
                       ResetLine(server.success,
                                 "SMB Server (LanmanServer) restarted successfully",
                                 "Failed to restart SMB Server: ",
                                 SigErrorText(server.stderr)),
                       ResetLine(client.success,
                                 "SMB Client (LanmanWorkstation) restarted successfully",
                                 "Failed to restart SMB Client: ",
                                 SigErrorText(client.stderr)),
                       IF lcl.all_success
                       THEN Line("All SMB services restarted successfully", "", <<>>)
                       ELSE Line("Some services failed to restart - check errors above",
                                 "", <<>>),
                       Line("Reloading SMB configuration...", "", <<>>) >>
         IN  /\ commands' = << RestartCommand("LanmanServer"),
                               RestartCommand("LanmanWorkstation") >>
             /\ status' = IF lcl.all_success
                          THEN Status("SMB services restarted successfully", "", TRUE)
                          ELSE Status("Some SMB services failed to restart", "", FALSE)
             /\ appended' = said
             /\ enabled' = TRUE
             /\ stack' = Resumed(Frame("restart_smb_service", 838, lcl, said))
    /\ UNCHANGED <<checked, overlay, loading, config_file, locals, smb, reg, writable,
                   connection_result_text, fw, net, host>>

\* restart_smb_service, line 839: the reload, after which the handler returns
restart_smb_service_839 ==
    /\ SuspendedAt("restart_smb_service", 838)
    /\ stack' = Popped
    /\ LoadBody(Top.locals, Top.said)
    /\ UNCHANGED <<writable, connection_result_text, fw, net, host>>

\* server_ip_input: empty, or the name of a server
ServerInputs == {"", "nas"}

TestLocals(ip, port_success) ==
    [handler |-> "test_smb_connection", ip |-> ip, success |-> port_success]

\* test_smb_connection, lines 841-853, with the share and the credentials
\* left empty. The Test Connection button is not among the controls
\* set_toggles_enabled disables, so the handler starts whenever it is clicked.
test_smb_connection ==
    /\ \E ip \in ServerInputs :
         IF ip = ""
         THEN /\ connection_result_text' =
                     << Line("Error: Please enter server IP or hostname", "", <<>>) >>
              /\ locals' = TestLocals(ip, FALSE)
              /\ commands' = <<>>
              /\ stack' = stack
         ELSE /\ Len(stack) < MaxStack
              /\ connection_result_text' = << Line("Testing connection to ", ip, <<>>) >>
              /\ commands' = <<>>
              /\ locals' = locals
              /\ stack' = Append(stack, Frame("test_smb_connection", 853,
                                              TestLocals(ip, FALSE), <<>>))
    /\ UNCHANGED <<checked, enabled, overlay, loading, config_file, status, appended,
                   smb, reg, writable, fw, net, host>>

\* how the port test and net view go against the server: it answers and
\* lists no share, or it cannot be reached
ServerModes == {"answers", "unreachable"}

\* test_smb_connection, lines 854-946 for an empty share and no credentials:
\* the port test and net view, and the result text. The calls of lines 867
\* and 905 are made with the controls as line 853 has them.
test_smb_connection_854 ==
    /\ SuspendedAt("test_smb_connection", 853)
    /\ \E mode \in ServerModes :
         LET port == run_powershell_command(
                         IF mode = "answers" THEN Exit(0, PsTrue, <<>>)
                         ELSE Exit(0, PsFalse, <<>>), 15)
             reachable == port.success /\ Contains(<<"T","r","u","e">>, port.stdout)
         IN  /\ connection_result_text' =
                   << IF reachable THEN Line("Port 445 (SMB) is reachable", "", <<>>)
                      ELSE Line("Port 445 (SMB) is not reachable", "", <<>>) >>
                   \o (IF mode = "answers"
                       THEN << Line("SMB service is responding", "", <<>>),
                               Line("", "", <<>>), Line("Available shares:", "", <<>>) >>
                       ELSE << Line("Network path not found - server may be offline",
                                    "", <<>>) >>)
             /\ commands' = << Command("powershell", "Test-NetConnection -Port 445",
                                       Top.locals.ip, ""),
                               Command("net", "view", Top.locals.ip, "") >>
             /\ locals' = TestLocals(Top.locals.ip, port.success)
    /\ stack' = Popped
    /\ UNCHANGED <<checked, enabled, overlay, loading, config_file, status, appended,
                   smb, reg, writable, fw, net, host>>

\* SMBTab.__init__ on a host that accepts every write or refuses every write
InitOps ==
    /\ host \in {"elevated", "restricted"}
    /\ smb \in [Settings -> BOOLEAN]
    /\ reg = [k \in KeyPaths |-> <<>>]
    /\ checked = LoadedToggles(smb, [s \in Settings |-> "run"], Loaded("", <<>>))
    /\ enabled = TRUE
    /\ overlay = FALSE
    /\ loading = FALSE
    /\ config_file = SettingsFile(checked["guest"], checked["client_sig"],
                                   checked["server_sig"])
    /\ status = Status("Configuration loaded", "", TRUE)
    /\ appended = LoadedLines(smb, [s \in Settings |-> "run"])
    /\ commands = LoadCommands
    /\ locals = LoadLocals(<<>>, smb, [s \in Settings |-> "run"])
    /\ writable = TRUE
    /\ NetworkTabIdle
    /\ OtherTabsIdle

NextOps ==
    \/ load_current_config
    \/ on_guest_toggle_changed
    \/ on_client_sig_toggle_changed
    \/ on_server_sig_toggle_changed
    \/ reset_to_default
    \/ reset_to_default_716
    \/ reset_to_default_769
    \/ restart_smb_service
    \/ restart_smb_service_791
    \/ restart_smb_service_839
    \/ test_smb_connection
    \/ test_smb_connection_854

SpecOps == InitOps /\ [][NextOps]_vars

\* a handler is in progress: it has started and is suspended in processEvents()
InProgress(handler) == \E i \in DOMAIN stack : stack[i].handler = handler

\* an operation on the SMB settings is in progress
SmbOperationInProgress ==
    InProgress("reset_to_default") \/ InProgress("restart_smb_service")

\* this step starts a handler that issues commands: one that suspends itself
\* before its commands is put on the stack, or one runs from its first line to
\* its last, commands included, with the stack as it was
HandlerStarts ==
    \/ Len(stack') > Len(stack)
    \/ stack' = stack /\ commands' # <<>>

\* C21 as claimed: no handler that issues external commands starts while
\* another has started and not yet finished
C21_OneAtATime ==
    [][stack # <<>> => ~HandlerStarts]_vars

\* C22 as claimed: while a reset or a service restart is in progress,
\* through its final reload, the toggles and the three buttons are disabled
C22_DisabledThroughout ==
    SmbOperationInProgress => ~enabled

\* the last handler to return is a reset or a restart the user confirmed,
\* the reload that ends it ran to its end, and no handler has started since
AfterOperation(handler) ==
    /\ stack = <<>>
    /\ locals.handler = handler
    /\ locals.reply = "Yes"
    /\ locals.load # <<>>
    /\ locals.load.raised = ""

\* C24: with no operation on the SMB settings in progress and the
\* preferences file writable, the three booleans of the file are the states
\* the three toggles show
C24_FileShowsToggles ==
    (~SmbOperationInProgress /\ writable) => config_file = FileOfToggles(checked)

\* a reset has ended on a host that kept client signing required, and the
\* file holds what the toggles show
C24_Witness ==
    /\ AfterOperation("reset_to_default")
    /\ checked["client_sig"]
    /\ config_file = FileOfToggles(checked)

\* every query of the reload that ended the operation succeeded
AllQueriesSucceeded == \A s \in Settings : locals.load.success[s]

\* C28 as claimed: after a confirmed reset whose three writes succeeded and
\* a reload whose three queries succeeded, every toggle shows false
C28_ResetShowsDefaults ==
    (AfterOperation("reset_to_default") /\ locals.all_success /\ AllQueriesSucceeded)
    => \A s \in Settings : ~checked[s]

\* C28 as amended: after such a reset and reload every toggle shows the value
\* the host holds for its setting, default or not
C28_ResetShowsLiveState ==
    (AfterOperation("reset_to_default") /\ locals.all_success /\ AllQueriesSucceeded)
    => \A s \in Settings : checked[s] = smb[s]

\* the reset's writes succeeded and the reload shows guest logons still on,
\* as the host reports them, and both signature settings off
C28_Witness ==
    /\ AfterOperation("reset_to_default") /\ locals.all_success /\ AllQueriesSucceeded
    /\ smb["guest"] /\ checked["guest"]
    /\ ~checked["client_sig"] /\ ~checked["server_sig"]
    /\ reg[gpo_key_path] = <<0>>

====
